---------------------------- MODULE Spec2Model ----------------------------
(***************************************************************************)
(* Verification model of the prethrift hybrid ranking and preference       *)
(* engine: the ontology classifier and its cache (backend/app/ontology.py),*)
(* the query-embedding and user-centroid caches (backend/app/user_state.py)*)
(* and the feedback / centroid-load paths (backend/app/api/feedback.py,    *)
(* backend/app/query_pipeline.py).                                         *)
(*                                                                         *)
(* Text is modelled at character level: a Python str is a TLA+ string and  *)
(* str.lower, str.strip, re.findall and re.search are operators over its   *)
(* characters.                                                             *)
(***************************************************************************)
EXTENDS Integers, Sequences, FiniteSets, TLC

-----------------------------------------------------------------------------
(* Characters and the str / re primitives used by the program              *)

Char(s, i) == SubSeq(s, i, i)

UpperAlpha == "ABCDEFGHIJKLMNOPQRSTUVWXYZ"
LowerAlpha == "abcdefghijklmnopqrstuvwxyz"
Digits == "0123456789"
\* Code-point order of the characters the model uses (Python compares str
\* by code point).
CodePointOrder ==
  "\t\n %&'-/0123456789ABCDEFGHIJKLMNOPQRSTUVWXYZ_abcdefghijklmnopqrstuvwxyz"

CharsOf(s) == {Char(s, i) : i \in 1..Len(s)}
UpperSet == CharsOf(UpperAlpha)
LowerSet == CharsOf(LowerAlpha)
DigitSet == CharsOf(Digits)
\* [a-zA-Z0-9]
AlnumSet == UpperSet \cup LowerSet \cup DigitSet
\* \w of the re module, over the model's characters
WordSet == AlnumSet \cup {"_"}
\* characters removed by str.strip()
WhitespaceSet == {" ", "\t", "\n"}

IndexIn(s, c) == CHOOSE i \in 1..Len(s) : Char(s, i) = c
ToLowerTable == [c \in UpperSet |-> Char(LowerAlpha, IndexIn(UpperAlpha, c))]
CodePoint == [c \in CharsOf(CodePointOrder) |-> IndexIn(CodePointOrder, c)]

LowerChar(c) == IF c \in UpperSet THEN ToLowerTable[c] ELSE c

RECURSIVE LowerFrom(_, _)
LowerFrom(s, i) ==
  IF i > Len(s) THEN "" ELSE LowerChar(Char(s, i)) \o LowerFrom(s, i + 1)
\* str.lower()
Lower(s) == LowerFrom(s, 1)

RECURSIVE FirstNonWs(_, _)
FirstNonWs(s, i) ==
  IF i <= Len(s) /\ Char(s, i) \in WhitespaceSet THEN FirstNonWs(s, i + 1) ELSE i
RECURSIVE LastNonWs(_, _)
LastNonWs(s, j) ==
  IF j >= 1 /\ Char(s, j) \in WhitespaceSet THEN LastNonWs(s, j - 1) ELSE j
\* str.strip()
Strip(s) == SubSeq(s, FirstNonWs(s, 1), LastNonWs(s, Len(s)))

\* c in s, for a one-character c
Contains(s, c) == \E i \in 1..Len(s) : Char(s, i) = c
EndsWith(s, suffix) ==
  Len(s) >= Len(suffix) /\ SubSeq(s, Len(s) - Len(suffix) + 1, Len(s)) = suffix

\* lexicographic comparison of str by code point
RECURSIVE StrLessFrom(_, _, _)
StrLessFrom(a, b, i) ==
  IF i > Len(b) THEN FALSE
  ELSE IF i > Len(a) THEN TRUE
  ELSE IF Char(a, i) = Char(b, i) THEN StrLessFrom(a, b, i + 1)
  ELSE CodePoint[Char(a, i)] < CodePoint[Char(b, i)]
StrLess(a, b) == StrLessFrom(a, b, 1)

\* sorted(S) for a set of str
RECURSIVE Sorted(_)
Sorted(S) ==
  IF S = {} THEN <<>>
  ELSE LET m == CHOOSE x \in S : \A y \in S \ {x} : StrLess(x, y)
       IN <<m>> \o Sorted(S \ {m})

\* end of the maximal run of characters of set cs that starts at i (i-1 if none)
RECURSIVE RunEnd(_, _, _)
RunEnd(s, i, cs) ==
  IF i <= Len(s) /\ Char(s, i) \in cs THEN RunEnd(s, i + 1, cs) ELSE i - 1

\* re.findall(r"[a-zA-Z0-9]+(?:'[a-z]+)?", s): the tokens of a description
RECURSIVE TokensFrom(_, _)
TokensFrom(s, i) ==
  IF i > Len(s) THEN <<>>
  ELSE IF Char(s, i) \notin AlnumSet THEN TokensFrom(s, i + 1)
  ELSE LET e == RunEnd(s, i, AlnumSet)
           a == RunEnd(s, e + 2, LowerSet)
           last == IF e + 1 <= Len(s) /\ Char(s, e + 1) = "'" /\ a >= e + 2
                   THEN a ELSE e
       IN <<SubSeq(s, i, last)>> \o TokensFrom(s, last + 1)
Tokenize(s) == TokensFrom(s, 1)

\* re.findall(r"[a-zA-Z]+(?:'[a-z]+)?", s): the tokens attribute_confidences uses
AlphaSet == UpperSet \cup LowerSet
RECURSIVE AlphaTokensFrom(_, _)
AlphaTokensFrom(s, i) ==
  IF i > Len(s) THEN <<>>
  ELSE IF Char(s, i) \notin AlphaSet THEN AlphaTokensFrom(s, i + 1)
  ELSE LET e == RunEnd(s, i, AlphaSet)
           a == RunEnd(s, e + 2, LowerSet)
           last == IF e + 1 <= Len(s) /\ Char(s, e + 1) = "'" /\ a >= e + 2
                   THEN a ELSE e
       IN <<SubSeq(s, i, last)>> \o AlphaTokensFrom(s, last + 1)
AlphaTokenize(s) == AlphaTokensFrom(s, 1)

\* \b of the re module at the gap before position i of s
IsWordAt(s, i) == i >= 1 /\ i <= Len(s) /\ Char(s, i) \in WordSet
Boundary(s, i) == IsWordAt(s, i - 1) # IsWordAt(s, i)

\* re.search(r"\b" + re.escape(cand) + r"\b", text) is not None
WordSearch(cand, text) ==
  \E i \in 1..(Len(text) - Len(cand) + 1) :
    /\ SubSeq(text, i, i + Len(cand) - 1) = cand
    /\ Boundary(text, i)
    /\ Boundary(text, i + Len(cand))

\* int(s) for a string of decimal digits
RECURSIVE ParseInt(_)
ParseInt(s) ==
  IF s = "" THEN 0
  ELSE 10 * ParseInt(SubSeq(s, 1, Len(s) - 1)) + (IndexIn(Digits, Char(s, Len(s))) - 1)
\* str(n) for n >= 0
RECURSIVE IntToStr(_)
IntToStr(n) ==
  IF n < 10 THEN Char(Digits, n + 1)
  ELSE IntToStr(n \div 10) \o Char(Digits, (n % 10) + 1)

-----------------------------------------------------------------------------
(* Controlled vocabulary and synonym table (ontology.py)                   *)

-----------------------------------------------------------------------------
(* Python float arithmetic.  A float is <<m, e>> for the value m * 2^e,    *)
(* with the mantissa normalised to MantissaBits bits, or <<0, 0>>; every   *)
(* operation rounds its exact result to nearest, ties to even.  CPython    *)
(* floats carry 53 mantissa bits; the model carries MantissaBits.          *)

MantissaBits == 8

RECURSIVE Pow2(_)
Pow2(n) == IF n = 0 THEN 1 ELSE 2 * Pow2(n - 1)

RECURSIVE BitLen(_)
BitLen(a) == IF a = 0 THEN 0 ELSE 1 + BitLen(a \div 2)

FZero == <<0, 0>>
FSign(x) == IF x[1] > 0 THEN 1 ELSE IF x[1] < 0 THEN -1 ELSE 0
FAbsInt(n) == IF n < 0 THEN -n ELSE n

\* the quotient a / p to the nearest integer, ties to the even one
NearestEven(q, r, p) ==
  IF 2 * r > p \/ (2 * r = p /\ q % 2 = 1) THEN q + 1 ELSE q

\* s * q * 2^e, renormalised when the rounding carried into a new bit
RoundCarry(s, q, e) ==
  IF q = Pow2(MantissaBits) THEN <<s * Pow2(MantissaBits - 1), e + 1>>
  ELSE <<s * q, e>>

\* m * 2^e for m # 0 whose length exceeds MantissaBits by k bits
RoundShift(m, e, k) ==
  IF k <= 0 THEN <<m * Pow2(-k), e + k>>
  ELSE RoundCarry(IF m < 0 THEN -1 ELSE 1,
                  NearestEven(FAbsInt(m) \div Pow2(k), FAbsInt(m) % Pow2(k), Pow2(k)),
                  e + k)

\* m * 2^e for an integer m of any length, rounded to MantissaBits
FRound(m, e) ==
  IF m = 0 THEN FZero
  ELSE RoundShift(m, e, BitLen(FAbsInt(m)) - MantissaBits)

FInt(n) == FRound(n, 0)
FNeg(x) == <<-x[1], x[2]>>
FMul(x, y) == FRound(x[1] * y[1], x[2] + y[2])

FAdd(x, y) ==
  IF x[1] = 0 THEN y
  ELSE IF y[1] = 0 THEN x
  ELSE IF x[2] - y[2] > MantissaBits + 2 THEN x
  ELSE IF y[2] - x[2] > MantissaBits + 2 THEN y
  ELSE LET e == IF x[2] < y[2] THEN x[2] ELSE y[2]
       IN FRound(x[1] * Pow2(x[2] - e) + y[1] * Pow2(y[2] - e), e)

\* s * n / d * 2^e for n, d > 0: the quotient and a sticky bit, rounded
DivRound(s, n, d, e) ==
  FRound(s * (2 * (n \div d) + (IF n % d = 0 THEN 0 ELSE 1)), e - 1)

\* x / y for y # 0: the quotient to MantissaBits + 2 bits and a sticky bit
FDiv(x, y) ==
  IF x[1] = 0 THEN FZero
  ELSE DivRound(FSign(x) * FSign(y),
                FAbsInt(x[1]) * Pow2(MantissaBits + 2), FAbsInt(y[1]),
                x[2] - y[2] - (MantissaBits + 2))

\* the integer square root, by bisection: lo * lo <= n < hi * hi
RECURSIVE ISqrtBetween(_, _, _)
ISqrtBetween(n, lo, hi) ==
  IF hi - lo <= 1 THEN lo
  ELSE LET mid == (lo + hi) \div 2
       IN IF mid * mid <= n THEN ISqrtBetween(n, mid, hi)
          ELSE ISqrtBetween(n, lo, mid)

\* the root r of n and a sticky bit, times 2^e, rounded
SqrtRound(n, r, e) == FRound(2 * r + (IF r * r = n THEN 0 ELSE 1), e - 1)

\* sqrt(m * 2^e) for m > 0 and even e
SqrtEven(m, e) ==
  SqrtRound(m * Pow2(2 * (MantissaBits + 2)),
            ISqrtBetween(m * Pow2(2 * (MantissaBits + 2)), 0, Pow2(MantissaBits + 7)),
            (e \div 2) - (MantissaBits + 2))

\* math.sqrt(x) for x >= 0
FSqrt(x) ==
  IF x[1] = 0 THEN FZero
  ELSE IF x[2] % 2 = 1 THEN SqrtEven(2 * x[1], x[2] - 1)
  ELSE SqrtEven(x[1], x[2])

\* x < y
FLess(x, y) ==
  LET sx == FSign(x)
      sy == FSign(y)
      \* |x| < |y| for non-zero x, y
      absLess == \/ x[2] < y[2]
                 \/ x[2] = y[2] /\ FAbsInt(x[1]) < FAbsInt(y[1])
  IN IF sx # sy THEN sx < sy
     ELSE IF sx = 0 THEN FALSE
     ELSE IF sx = 1 THEN absLess
     ELSE \/ y[2] < x[2]
          \/ x[2] = y[2] /\ FAbsInt(y[1]) < FAbsInt(x[1])
FLeq(x, y) == x = y \/ FLess(x, y)
\* max(x, y) of Python: y only when y > x
FMax(x, y) == IF FLess(x, y) THEN y ELSE x

\* the float literal n / d of the source, for integers n and d
FLit(n, d) == FDiv(FInt(n), FInt(d))
FOne == FInt(1)

ONTOLOGY ==
  [
   category |->
      {
        "accessories", "activewear", "bottoms", "dress", "jacket", "outerwear", "pants",
        "shirt", "shoes", "skirt", "swimwear", "tops", "undergarments"
      },
   subcategory |->
      {
        "a-line", "ankle-boots", "asymmetrical", "athletic", "athletic-tee", "backpack",
        "bag", "baseball-cap", "beanie", "belt", "beret", "bikini", "blazer", "blouse",
        "bodycon", "bodysuit", "bomber", "bootcut", "boots", "bra", "bucket-hat",
        "camisole", "cape", "capris", "cardigan", "cargo-pants", "chinos", "circle",
        "clogs", "clutch", "coat", "cocktail", "compression-wear", "cover-up", "crop-top",
        "crossbody", "culottes", "denim-jacket", "dress-shoes", "espadrilles", "fedora",
        "fit-and-flare", "flats", "halter-top", "handbag", "hat", "heels", "henley",
        "high-low", "hoodie", "jeans", "jewelry", "knee-boots", "leather-jacket",
        "leggings", "loafers", "maxi", "messenger", "midi", "mini", "moisture-wicking",
        "mules", "one-piece", "oxfords", "palazzo", "parka", "peacoat", "pencil",
        "performance-gear", "platform", "pleated", "polo", "poncho", "puffer", "pumps",
        "rash-guard", "running-shorts", "sandals", "scarf", "shapewear", "sheath", "shift",
        "shirt-dress", "shorts", "skinny", "slip", "slip-dress", "sneakers", "sports-bra",
        "stilettos", "straight-leg", "sunglasses", "sweater", "sweater-dress",
        "swim-shorts", "t-shirt", "tank-top", "tankini", "tiered", "tote", "track-jacket",
        "trench", "trousers", "tube-top", "underwear", "vest", "watch", "wedges",
        "wide-leg", "windbreaker", "wrap", "wrap-top", "yoga-pants"
      },
   era |->
      {
        "1920s", "1930s", "1940s", "1950s", "1960s", "1970s", "1980s", "1990s", "2000s",
        "2010s", "2020s", "art-deco", "athleisure", "boho", "disco", "edwardian", "grunge",
        "hippie", "minimalist", "mod", "new-wave", "normcore", "post-war", "punk",
        "victorian", "wartime", "y2k"
      },
   brand |->
      {
        "7-for-all-mankind", "acne-studios", "adidas", "ag-jeans", "agolde", "alo-yoga",
        "and-other-stories", "ann-taylor", "anthropologie", "apc", "arc-teryx", "arket",
        "armani", "asos", "athleta", "balenciaga", "banana-republic", "barbour",
        "ben-davis", "boohoo", "bottega-veneta", "burberry", "canada-goose", "carhartt",
        "celine", "champion", "chanel", "citizens-of-humanity", "club-monaco", "converse",
        "cos", "current-elliott", "deadstock", "dickies", "dior", "dr-martens", "equipment",
        "everlane", "fendi", "filson", "forever-21", "frame", "free-people", "ganni", "gap",
        "girlfriend-collective", "givenchy", "golden-goose", "good-american", "grlfrnd",
        "gucci", "h-m", "hermes", "isabel-marant", "j-crew", "jacquemus", "khaite",
        "lemaire", "levi-s", "ll-bean", "loewe", "louis-vuitton", "lululemon", "madewell",
        "mansur-gavriel", "massimo-dutti", "mm6", "moncler", "mother", "muji", "nanushka",
        "nasty-gal", "nike", "off-white", "old-navy", "outdoor-voices", "paige",
        "patagonia", "pendleton", "prada", "pretty-little-thing", "princess-polly",
        "proenza-schouler", "rag-and-bone", "re-done", "red-wing", "reformation", "reiss",
        "rejina-pyo", "saint-laurent", "sezane", "shein", "staud", "stone-island", "target",
        "the-north-face", "the-row", "theory", "tom-ford", "toteme", "uniqlo",
        "urban-outfitters", "valentino", "vans", "versace", "vintage", "whistles", "zara"
      },
   fit |->
      {
        "athletic-fit", "bootcut", "boxy", "boyfriend", "compression", "cropped", "dad-fit",
        "fitted", "flare", "flowing", "girlfriend", "high-waisted", "loose", "low-rise",
        "mid-rise", "mom-fit", "oversized", "regular", "relaxed", "skinny", "slim",
        "straight", "structured", "tailored", "wide-leg"
      },
   material |->
      {
        "acetate", "acrylic", "ahimsa-silk", "alpaca", "angora", "anti-microbial", "aramid",
        "bamboo", "bamboo-fiber", "beaded", "breathable", "canvas", "cashmere", "chambray",
        "chiffon", "compression-fabric", "corduroy", "cotton", "crepe", "deadstock",
        "denim", "down", "eco-friendly", "egyptian-cotton", "elastane", "embroidered",
        "faux-fur", "faux-leather", "feathers", "flannel", "flax", "fleece", "french-terry",
        "fur", "gauze", "georgette", "hemp", "hemp-blend", "holographic", "insulating",
        "interlock", "jersey", "jute", "kevlar", "lace", "leather", "linen",
        "linen-cotton-blend", "lycra", "merino-wool", "mesh", "metallic", "microfiber",
        "modal", "mohair", "moisture-wicking", "neoprene", "nylon", "odor-resistant",
        "organic", "organic-cotton", "organza", "oxford-cloth", "patent-leather",
        "peace-silk", "pearl", "pima-cotton", "polyamide", "polyester", "polypropylene",
        "polyurethane", "ponte", "poplin", "quick-dry", "ramie", "rayon", "recycled",
        "reflective", "satin", "scuba", "sequined", "shearling", "shell", "silk", "spandex",
        "stretch-fabric", "suede", "supima-cotton", "sustainable", "taffeta", "tencel",
        "tencel-lyocell", "terry-cloth", "thermal", "tulle", "twill", "upcycled",
        "uv-protection", "vegan-leather", "velour", "velvet", "viscose", "voile",
        "water-resistant", "waterproof", "windproof", "wool"
      },
   color_primary |->
      {
        "amber", "apricot", "aqua", "beige", "black", "blue", "blush", "brown", "burgundy",
        "burnt-orange", "butter", "camel", "canary", "charcoal", "chocolate", "cognac",
        "coral", "cream", "crimson", "eggplant", "emerald", "forest", "fuchsia", "gold",
        "gradient", "gray", "green", "grey", "indigo", "ivory", "lavender", "lemon",
        "lilac", "lime", "magenta", "maroon", "mint", "multicolor", "mustard", "navy",
        "neon-green", "olive", "ombre", "orange", "orchid", "peach", "pink", "plum",
        "powder-blue", "purple", "rainbow", "red", "rose", "royal-blue", "rust", "sage",
        "salmon", "silver", "sky-blue", "tan", "teal", "terracotta", "tie-dye", "turquoise",
        "violet", "white", "wine", "yellow"
      },
   pattern |->
      {
        "abstract", "animal-print", "applique", "argyle", "bohemian", "botanical",
        "camouflage", "checkered", "chevron", "embroidered", "ethnic", "floral",
        "geometric", "gingham", "glen-plaid", "gradient", "graphic", "herringbone",
        "holographic", "houndstooth", "iridescent", "leopard", "logo", "metallic", "ombre",
        "paisley", "patchwork", "pinstripe", "plaid", "polka-dot", "quilted", "retro",
        "ribbed", "snake", "solid", "striped", "tartan", "text", "textured", "tie-dye",
        "tribal", "vintage-print", "windowpane", "zebra"
      },
   style |->
      {
        "alternative", "americana", "artistic", "athletic", "avant-garde", "bohemian",
        "boho-chic", "bold", "business", "casual", "chic", "classic", "cocktail",
        "collegiate", "comfortable", "contemporary", "corporate", "country", "cowgirl",
        "creative", "dramatic", "edgy", "effortless", "elegant", "evening", "experimental",
        "eye-catching", "fashionable", "feminine", "formal", "futuristic", "girly",
        "glamorous", "goth", "grunge", "hip-hop", "hippie", "ivy-league", "laid-back",
        "luxurious", "maximalist", "military", "minimalist", "modern", "nautical",
        "polished", "preppy", "professional", "punk", "rebellious", "relaxed", "retro",
        "romantic", "rustic", "sci-fi", "skater", "sophisticated", "sporty", "statement",
        "streetwear", "surf", "sweet", "timeless", "trendy", "urban", "utilitarian",
        "vintage", "weekend", "western", "workwear"
      },
   season |->
      {
        "all-season", "autumn", "breathable", "cool-weather", "cruise", "fall",
        "heavyweight", "holiday", "insulating", "layering", "lightweight", "resort",
        "spring", "summer", "transitional", "vacation", "warm-weather", "winter"
      },
   occasion |->
      {
        "at-home", "beach", "black-tie", "brunch", "business", "camping", "casual",
        "celebration", "cocktail", "comfort", "date-night", "dinner", "dressy", "evening",
        "everyday", "formal", "gym", "hiking", "loungewear", "lunch", "maternity",
        "night-out", "nursing", "office", "outdoor", "party", "professional", "resort",
        "running", "semi-formal", "sleepwear", "sports", "travel", "vacation", "wedding",
        "weekend", "white-tie", "work", "yoga"
      },
   neckline |->
      {
        "boat", "button-up", "collar", "cowl", "crew", "cutout", "deep-v", "halter",
        "henley", "high-neck", "keyhole", "mock-neck", "off-shoulder", "one-shoulder",
        "plunging", "polo", "round", "scoop", "square", "strapless", "sweetheart",
        "turtleneck", "u-neck", "v-neck", "zip-up"
      },
   sleeve_length |->
      {
        "batwing", "bell", "bishop", "cap-sleeve", "cuffed", "dolman", "elbow",
        "extra-long", "fitted", "flare", "kimono", "long", "loose", "puff", "raglan",
        "short", "sleeveless", "tapered", "three-quarter", "wide"
      },
   size |->
      {
        "0", "10", "12", "14", "16", "18", "2", "20", "22", "24", "26", "28", "30", "32",
        "4", "6", "8", "l", "m", "maternity", "one-size", "petite", "plus-size", "regular",
        "s", "tall", "xl", "xs", "xxl", "xxs", "xxxl"
      },
   condition |->
      {
        "damaged", "deadstock", "excellent", "fair", "good", "new-with-tags",
        "new-without-tags", "prototype", "sample", "very-good", "vintage", "worn"
      },
   price_tier |->
      {
        "affordable", "budget", "collectible", "designer", "haute-couture", "investment",
        "luxury", "mid-range", "premium", "rare", "vintage"
      }
  ]

SYNONYMS ==
  [
   category |->
      {
        <<"top", "shirt">>, <<"upper", "shirt">>, <<"blouse", "shirt">>, <<"tee", "shirt">>,
        <<"sweater", "shirt">>, <<"hoodie", "shirt">>, <<"bottom", "pants">>, <<"trouser",
        "pants">>, <<"jean", "pants">>, <<"pant", "pants">>, <<"outerwear", "jacket">>,
        <<"coat", "jacket">>, <<"blazer", "jacket">>, <<"cardigan", "jacket">>,
        <<"footwear", "shoes">>, <<"boot", "shoes">>, <<"sneaker", "shoes">>, <<"heel",
        "shoes">>, <<"sandal", "shoes">>, <<"flat", "shoes">>, <<"accessory",
        "accessories">>, <<"bag", "accessories">>, <<"purse", "accessories">>, <<"jewelry",
        "accessories">>, <<"scarf", "accessories">>, <<"belt", "accessories">>, <<"hat",
        "accessories">>
      },
   subcategory |->
      {
        <<"t-shirt", "t-shirt">>, <<"tee", "t-shirt">>, <<"tshirt", "t-shirt">>, <<"tank",
        "tank-top">>, <<"cami", "camisole">>, <<"jumper", "sweater">>, <<"pullover",
        "sweater">>, <<"sweatshirt", "hoodie">>, <<"jacket", "blazer">>, <<"suit-jacket",
        "blazer">>, <<"winter-coat", "coat">>, <<"overcoat", "coat">>, <<"rain-jacket",
        "windbreaker">>, <<"down-jacket", "puffer">>, <<"puffer-jacket", "puffer">>,
        <<"trench-coat", "trench">>, <<"peacoat", "peacoat">>, <<"waistcoat", "vest">>,
        <<"denim", "jeans">>, <<"jean", "jeans">>, <<"trouser", "trousers">>, <<"pant",
        "trousers">>, <<"legging", "leggings">>, <<"tight", "leggings">>, <<"short",
        "shorts">>, <<"bermuda", "shorts">>, <<"cargo", "cargo-pants">>, <<"wide-leg-pants",
        "wide-leg">>, <<"skinny-jeans", "skinny">>, <<"bootcut-jeans", "bootcut">>,
        <<"straight-jeans", "straight-leg">>, <<"maxi-dress", "maxi">>, <<"midi-dress",
        "midi">>, <<"mini-dress", "mini">>, <<"shift-dress", "shift">>, <<"wrap-dress",
        "wrap">>, <<"bodycon-dress", "bodycon">>, <<"a-line-dress", "a-line">>, <<"slip",
        "slip-dress">>, <<"sneaker", "sneakers">>, <<"trainer", "sneakers">>,
        <<"athletic-shoe", "sneakers">>, <<"boot", "boots">>, <<"ankle-boot",
        "ankle-boots">>, <<"knee-boot", "knee-boots">>, <<"high-heel", "heels">>, <<"pump",
        "pumps">>, <<"stiletto", "stilettos">>, <<"wedge", "wedges">>, <<"flat-shoe",
        "flats">>, <<"sandal", "sandals">>, <<"loafer", "loafers">>, <<"oxford",
        "oxfords">>, <<"mule", "mules">>, <<"handbag", "bag">>, <<"purse", "bag">>,
        <<"tote-bag", "tote">>, <<"cross-body", "crossbody">>, <<"messenger-bag",
        "messenger">>, <<"clutch-bag", "clutch">>, <<"backpack", "backpack">>, <<"cap",
        "baseball-cap">>, <<"hat", "baseball-cap">>, <<"beanie", "beanie">>, <<"fedora",
        "fedora">>, <<"bucket-hat", "bucket-hat">>
      },
   era |->
      {
        <<"twenties", "1920s">>, <<"thirties", "1930s">>, <<"forties", "1940s">>,
        <<"fifties", "1950s">>, <<"sixties", "1960s">>, <<"seventies", "1970s">>,
        <<"eighties", "1980s">>, <<"nineties", "1990s">>, <<"2000", "2000s">>, <<"2010",
        "2010s">>, <<"2020", "2020s">>, <<"retro", "vintage">>, <<"antique", "victorian">>,
        <<"wwii", "wartime">>, <<"world-war", "wartime">>, <<"post-wwii", "post-war">>,
        <<"swinging-sixties", "mod">>, <<"flower-power", "hippie">>, <<"bohemian",
        "hippie">>, <<"1970s", "disco">>, <<"new-romantic", "new-wave">>, <<"alternative",
        "grunge">>, <<"millennial", "y2k">>, <<"athletic", "athleisure">>
      },
   brand |->
      {
        <<"chanel", "chanel">>, <<"lv", "louis-vuitton">>, <<"louis-v", "louis-vuitton">>,
        <<"ysl", "saint-laurent">>, <<"saint-laurent", "saint-laurent">>, <<"armani",
        "armani">>, <<"giorgio-armani", "armani">>, <<"emporio-armani", "armani">>,
        <<"j-crew", "j-crew">>, <<"jcrew", "j-crew">>, <<"banana-republic",
        "banana-republic">>, <<"br", "banana-republic">>, <<"ann-taylor", "ann-taylor">>,
        <<"at", "ann-taylor">>, <<"club-monaco", "club-monaco">>, <<"cm", "club-monaco">>,
        <<"nike", "nike">>, <<"adidas", "adidas">>, <<"lululemon", "lululemon">>, <<"lulu",
        "lululemon">>, <<"athleta", "athleta">>, <<"ov", "outdoor-voices">>, <<"alo",
        "alo-yoga">>, <<"gf-collective", "girlfriend-collective">>, <<"patagonia",
        "patagonia">>, <<"tnf", "the-north-face">>, <<"north-face", "the-north-face">>,
        <<"levis", "levi-s">>, <<"levi", "levi-s">>, <<"ag", "ag-jeans">>, <<"coh",
        "citizens-of-humanity">>, <<"citizens", "citizens-of-humanity">>, <<"frame-denim",
        "frame">>, <<"mother-denim", "mother">>, <<"paige-denim", "paige">>, <<"7fam",
        "7-for-all-mankind">>, <<"7-for-all", "7-for-all-mankind">>, <<"h&m", "h-m">>,
        <<"hm", "h-m">>, <<"f21", "forever-21">>, <<"forever21", "forever-21">>,
        <<"old-navy", "old-navy">>, <<"on", "old-navy">>, <<"uniqlo", "uniqlo">>, <<"muji",
        "muji">>, <<"vintage", "vintage">>, <<"retro", "vintage">>, <<"antique",
        "vintage">>, <<"deadstock", "deadstock">>, <<"nos", "deadstock">>
      },
   fit |->
      {
        <<"loose", "relaxed">>, <<"baggy", "relaxed">>, <<"roomy", "relaxed">>, <<"normal",
        "regular">>, <<"standard", "regular">>, <<"classic", "regular">>, <<"tight",
        "slim">>, <<"narrow", "slim">>, <<"skinny", "slim">>, <<"big", "oversized">>,
        <<"large", "oversized">>, <<"boxy", "oversized">>, <<"snug", "fitted">>,
        <<"form-fitting", "fitted">>, <<"wide", "loose">>, <<"boyfriend", "boyfriend">>,
        <<"girlfriend", "girlfriend">>, <<"mom", "mom-fit">>, <<"dad", "dad-fit">>,
        <<"high-waist", "high-waisted">>, <<"low-waist", "low-rise">>, <<"mid-waist",
        "mid-rise">>, <<"compression", "compression">>, <<"athletic", "athletic-fit">>
      },
   material |->
      {
        <<"100%-cotton", "cotton">>, <<"pure-cotton", "cotton">>, <<"organic-cotton",
        "organic-cotton">>, <<"linen", "linen">>, <<"flax", "linen">>, <<"wool", "wool">>,
        <<"woolen", "wool">>, <<"merino", "merino-wool">>, <<"cashmere", "cashmere">>,
        <<"silk", "silk">>, <<"mulberry-silk", "silk">>, <<"hemp", "hemp">>, <<"bamboo",
        "bamboo">>, <<"poly", "polyester">>, <<"polyester", "polyester">>, <<"nylon",
        "nylon">>, <<"spandex", "elastane">>, <<"lycra", "elastane">>, <<"elastane",
        "elastane">>, <<"stretch", "elastane">>, <<"rayon", "rayon">>, <<"viscose",
        "viscose">>, <<"modal", "modal">>, <<"tencel", "tencel">>, <<"synthetic",
        "synthetic">>, <<"man-made", "synthetic">>, <<"artificial", "synthetic">>,
        <<"leather", "leather">>, <<"genuine-leather", "leather">>, <<"real-leather",
        "leather">>, <<"suede", "suede">>, <<"patent", "patent-leather">>, <<"faux-leather",
        "faux-leather">>, <<"pleather", "faux-leather">>, <<"vegan-leather",
        "vegan-leather">>, <<"denim", "denim">>, <<"jean", "denim">>, <<"chambray",
        "chambray">>, <<"canvas", "canvas">>, <<"twill", "twill">>, <<"moisture-wicking",
        "moisture-wicking">>, <<"quick-dry", "quick-dry">>, <<"breathable", "breathable">>,
        <<"waterproof", "waterproof">>, <<"water-resistant", "water-resistant">>,
        <<"windproof", "windproof">>
      },
   color_primary |->
      {
        <<"grey", "gray">>, <<"charcoal", "charcoal">>, <<"off-white", "cream">>, <<"ivory",
        "ivory">>, <<"nude", "beige">>, <<"tan", "tan">>, <<"camel", "camel">>, <<"cognac",
        "cognac">>, <<"burgundy", "burgundy">>, <<"wine", "wine">>, <<"maroon", "maroon">>,
        <<"crimson", "red">>, <<"coral", "coral">>, <<"pink", "pink">>, <<"rose", "rose">>,
        <<"blush", "blush">>, <<"orange", "orange">>, <<"peach", "peach">>, <<"salmon",
        "salmon">>, <<"yellow", "yellow">>, <<"mustard", "mustard">>, <<"gold", "gold">>,
        <<"olive", "olive">>, <<"sage", "sage">>, <<"mint", "mint">>, <<"emerald",
        "green">>, <<"forest", "green">>, <<"lime", "lime">>, <<"navy", "navy">>, <<"royal",
        "royal-blue">>, <<"sky", "sky-blue">>, <<"powder", "powder-blue">>, <<"teal",
        "teal">>, <<"turquoise", "turquoise">>, <<"purple", "purple">>, <<"lavender",
        "lavender">>, <<"plum", "plum">>, <<"violet", "violet">>
      },
   pattern |->
      {
        <<"plain", "solid">>, <<"stripe", "striped">>, <<"check", "checkered">>,
        <<"gingham", "gingham">>, <<"plaid", "plaid">>, <<"tartan", "tartan">>,
        <<"houndstooth", "houndstooth">>, <<"floral", "floral">>, <<"flower", "floral">>,
        <<"botanical", "botanical">>, <<"paisley", "paisley">>, <<"polka-dot",
        "polka-dot">>, <<"dots", "polka-dot">>, <<"geometric", "geometric">>, <<"abstract",
        "abstract">>, <<"graphic", "graphic">>, <<"logo", "logo">>, <<"text", "text">>,
        <<"animal", "animal-print">>, <<"leopard", "leopard">>, <<"zebra", "zebra">>,
        <<"snake", "snake">>, <<"camo", "camouflage">>, <<"camouflage", "camouflage">>,
        <<"tribal", "tribal">>, <<"ethnic", "ethnic">>, <<"argyle", "argyle">>, <<"chevron",
        "chevron">>, <<"herringbone", "herringbone">>, <<"pinstripe", "pinstripe">>,
        <<"tie-dye", "tie-dye">>, <<"tiedye", "tie-dye">>, <<"ombre", "ombre">>,
        <<"gradient", "gradient">>
      },
   style |->
      {
        <<"retro", "vintage">>, <<"classic", "classic">>, <<"timeless", "timeless">>,
        <<"modern", "modern">>, <<"contemporary", "contemporary">>, <<"minimal",
        "minimalist">>, <<"maximalist", "maximalist">>, <<"boho", "bohemian">>,
        <<"bohemian", "bohemian">>, <<"hippie", "hippie">>, <<"grunge", "grunge">>,
        <<"punk", "punk">>, <<"goth", "goth">>, <<"gothic", "goth">>, <<"preppy",
        "preppy">>, <<"ivy", "ivy-league">>, <<"collegiate", "collegiate">>, <<"nautical",
        "nautical">>, <<"military", "military">>, <<"utility", "utilitarian">>,
        <<"workwear", "workwear">>, <<"americana", "americana">>, <<"western", "western">>,
        <<"cowgirl", "cowgirl">>, <<"street", "streetwear">>, <<"urban", "urban">>,
        <<"sporty", "athletic">>, <<"formal", "formal">>, <<"business", "business">>,
        <<"professional", "professional">>, <<"cocktail", "cocktail">>, <<"evening",
        "evening">>, <<"casual", "casual">>, <<"relaxed", "relaxed">>, <<"comfortable",
        "comfortable">>, <<"romantic", "romantic">>, <<"feminine", "feminine">>, <<"girly",
        "girly">>, <<"edgy", "edgy">>, <<"rebellious", "rebellious">>, <<"alternative",
        "alternative">>, <<"artistic", "artistic">>, <<"creative", "creative">>,
        <<"glamorous", "glamorous">>, <<"luxurious", "luxurious">>, <<"sophisticated",
        "sophisticated">>, <<"elegant", "elegant">>, <<"chic", "chic">>, <<"trendy",
        "trendy">>, <<"fashionable", "fashionable">>
      },
   season |->
      {
        <<"spring", "spring">>, <<"summer", "summer">>, <<"fall", "fall">>, <<"autumn",
        "fall">>, <<"winter", "winter">>, <<"all-season", "all-season">>, <<"year-round",
        "all-season">>, <<"transitional", "transitional">>, <<"resort", "resort">>,
        <<"cruise", "cruise">>, <<"holiday", "holiday">>, <<"vacation", "vacation">>,
        <<"warm", "warm-weather">>, <<"hot", "warm-weather">>, <<"cool", "cool-weather">>,
        <<"cold", "cool-weather">>
      },
   occasion |->
      {
        <<"everyday", "casual">>, <<"weekend", "weekend">>, <<"work", "work">>, <<"office",
        "office">>, <<"business", "business">>, <<"professional", "professional">>,
        <<"formal", "formal">>, <<"dressy", "dressy">>, <<"semi-formal", "semi-formal">>,
        <<"cocktail", "cocktail">>, <<"evening", "evening">>, <<"party", "party">>,
        <<"celebration", "celebration">>, <<"wedding", "wedding">>, <<"date",
        "date-night">>, <<"night-out", "night-out">>, <<"brunch", "brunch">>, <<"travel",
        "travel">>, <<"vacation", "vacation">>, <<"beach", "beach">>, <<"outdoor",
        "outdoor">>, <<"sports", "sports">>, <<"gym", "gym">>, <<"yoga", "yoga">>,
        <<"running", "running">>, <<"lounge", "loungewear">>, <<"sleep", "sleepwear">>,
        <<"home", "at-home">>
      },
   neckline |->
      {
        <<"crew", "crew">>, <<"round", "round">>, <<"scoop", "scoop">>, <<"v", "v-neck">>,
        <<"vneck", "v-neck">>, <<"v-neck", "v-neck">>, <<"deep-v", "deep-v">>, <<"plunging",
        "plunging">>, <<"u-neck", "u-neck">>, <<"square", "square">>, <<"sweetheart",
        "sweetheart">>, <<"strapless", "strapless">>, <<"off-shoulder", "off-shoulder">>,
        <<"one-shoulder", "one-shoulder">>, <<"halter", "halter">>, <<"high-neck",
        "high-neck">>, <<"mock", "mock-neck">>, <<"turtle", "turtleneck">>, <<"turtleneck",
        "turtleneck">>, <<"cowl", "cowl">>, <<"boat", "boat">>, <<"collar", "collar">>,
        <<"polo", "polo">>, <<"henley", "henley">>, <<"button", "button-up">>, <<"zip",
        "zip-up">>, <<"keyhole", "keyhole">>, <<"cutout", "cutout">>
      },
   sleeve_length |->
      {
        <<"sleeveless", "sleeveless">>, <<"tank", "sleeveless">>, <<"cap", "cap-sleeve">>,
        <<"short", "short">>, <<"elbow", "elbow">>, <<"three-quarter", "three-quarter">>,
        <<"3/4", "three-quarter">>, <<"long", "long">>, <<"extra-long", "extra-long">>,
        <<"bell", "bell">>, <<"flare", "flare">>, <<"bishop", "bishop">>, <<"puff",
        "puff">>, <<"raglan", "raglan">>, <<"dolman", "dolman">>, <<"kimono", "kimono">>,
        <<"batwing", "batwing">>
      }
  ]


Families == DOMAIN ONTOLOGY

\* Optional values: None is the empty set, a present value x is {x}.
None == {}
Some(x) == {x}
TheValue(opt) == CHOOSE x \in opt : TRUE

\* ONTOLOGY.get(fam, set())
OntologyGet(fam) == IF fam \in DOMAIN ONTOLOGY THEN ONTOLOGY[fam] ELSE {}

\* normalize(family, raw) -> canonical value or None
normalize(family, raw) ==
  LET r == Lower(Strip(raw)) IN
  IF family \in DOMAIN ONTOLOGY /\ r \in ONTOLOGY[family] THEN Some(r)
  ELSE IF family \in DOMAIN SYNONYMS /\ (\E p \in SYNONYMS[family] : p[1] = r)
  THEN LET normalized == (CHOOSE p \in SYNONYMS[family] : p[1] = r)[2]
       IN IF family \in DOMAIN ONTOLOGY /\ normalized \in ONTOLOGY[family]
          THEN Some(normalized) ELSE None
  ELSE None

-----------------------------------------------------------------------------
(* classify_basic (ontology.py)                                            *)

\* " " in s or "-" in s.  The test is only ever applied to vocabulary values
\* and synonym surfaces, so it is evaluated once per string and looked up.
VocabularyStrings ==
  UNION {ONTOLOGY[f] : f \in DOMAIN ONTOLOGY}
  \cup UNION {{p[1] : p \in SYNONYMS[f]} : f \in DOMAIN SYNONYMS}
MultiWordStrings ==
  {s \in VocabularyStrings : Contains(s, " ") \/ Contains(s, "-")}
HasSep(s) ==
  IF s \in VocabularyStrings THEN s \in MultiWordStrings
  ELSE Contains(s, " ") \/ Contains(s, "-")

\* the families scanned by the token / boundary loop
MatchFamilies ==
  <<"category", "subcategory", "era", "brand", "style", "color_primary",
    "pattern", "neckline", "sleeve_length", "material", "fit", "season",
    "occasion", "size", "condition", "price_tier">>

SeqToSet(seq) == {seq[i] : i \in 1..Len(seq)}

\* fam_matches maps every family to its set of matched values; a family is
\* "in fam_matches" when its set is not empty.
EmptyMatches == [fam \in Families \cup SeqToSet(MatchFamilies) |-> {}]
fam_add(fm, fam, val) == [fm EXCEPT ![fam] = @ \cup {val}]
FamAddAll(fm, fam, vals) == [fm EXCEPT ![fam] = @ \cup vals]

\* token / boundary matches of the vocabulary
TokenMatches(text, token_set) ==
  [fam \in DOMAIN EmptyMatches |->
     IF fam \in SeqToSet(MatchFamilies)
     THEN {candidate \in OntologyGet(fam) :
             IF HasSep(candidate) THEN WordSearch(candidate, text)
             ELSE candidate \in token_set}
     ELSE {}]

\* synonym surfaces
SurfMatches(surf, text, token_set) ==
  \/ HasSep(surf) /\ WordSearch(surf, text)
  \/ ~HasSep(surf) /\ surf \in token_set

SynonymMatches(fm, text, token_set) ==
  [fam \in DOMAIN fm |->
     IF fam \in DOMAIN SYNONYMS
     THEN fm[fam] \cup
          {p[2] : p \in {q \in SYNONYMS[fam] :
                           SurfMatches(q[1], text, token_set)
                           /\ q[2] \in OntologyGet(fam)}}
     ELSE fm[fam]]

\* re.findall(r'\b(19|20)\d{2}s?\b', text): findall returns the text of the
\* single capture group, i.e. the century prefix of every match.
YearMatchAt(text, i, n) ==
  /\ i + n - 1 <= Len(text)
  /\ Boundary(text, i)
  /\ SubSeq(text, i, i + 1) \in {"19", "20"}
  /\ Char(text, i + 2) \in DigitSet
  /\ Char(text, i + 3) \in DigitSet
  /\ (n = 5 => Char(text, i + 4) = "s")
  /\ Boundary(text, i + n)
year_matches(text) ==
  {SubSeq(text, i, i + 1) :
     i \in {j \in 1..Len(text) : YearMatchAt(text, j, 4) \/ YearMatchAt(text, j, 5)}}

DecadeOf(year_match) ==
  IF EndsWith(year_match, "s") THEN year_match
  ELSE IntToStr((ParseInt(year_match) \div 10) * 10) \o "s"

YearEraMatches(fm, text) ==
  FamAddAll(fm, "era",
            {DecadeOf(ym) : ym \in year_matches(text)} \cap OntologyGet("era"))

\* brand detection after an indicator token
brand_indicators == {"by", "from", "brand", "label", "designer"}
BrandMatches(fm, tokens) ==
  FamAddAll(fm, "brand",
            {tokens[i + 1] :
               i \in {j \in 1..(Len(tokens) - 1) :
                        tokens[j] \in brand_indicators
                        /\ tokens[j + 1] \in OntologyGet("brand")}})

\* loose boosts and heuristics
Boosts(fm, token_set) ==
  LET b1 == IF "band" \in token_set
               /\ ("tee" \in token_set \/ "shirt" \in token_set \/ "t" \in token_set)
            THEN fam_add(fm, "style", "vintage") ELSE fm
      b2 == IF "graphic" \in token_set THEN fam_add(b1, "pattern", "graphic") ELSE b1
      b3 == IF "vintage" \in token_set \/ "retro" \in token_set
            THEN fam_add(b2, "style", "vintage") ELSE b2
      b4 == IF "designer" \in token_set \/ "luxury" \in token_set
            THEN fam_add(b3, "price_tier", "luxury") ELSE b3
      b5 == IF "used" \in token_set \/ "preloved" \in token_set
               \/ "secondhand" \in token_set
            THEN fam_add(b4, "condition", "good") ELSE b4
  IN b5

subcategory_to_category ==
  {<<"t-shirt", "shirt">>, <<"blouse", "shirt">>, <<"tank-top", "shirt">>,
   <<"camisole", "shirt">>, <<"sweater", "shirt">>, <<"hoodie", "shirt">>,
   <<"cardigan", "shirt">>, <<"polo", "shirt">>, <<"henley", "shirt">>,
   <<"crop-top", "shirt">>, <<"tube-top", "shirt">>, <<"halter-top", "shirt">>,
   <<"wrap-top", "shirt">>,
   <<"blazer", "jacket">>, <<"coat", "jacket">>, <<"parka", "jacket">>,
   <<"bomber", "jacket">>, <<"denim-jacket", "jacket">>,
   <<"leather-jacket", "jacket">>, <<"windbreaker", "jacket">>,
   <<"puffer", "jacket">>, <<"trench", "jacket">>, <<"peacoat", "jacket">>,
   <<"vest", "jacket">>, <<"cape", "jacket">>, <<"poncho", "jacket">>,
   <<"jeans", "pants">>, <<"chinos", "pants">>, <<"trousers", "pants">>,
   <<"leggings", "pants">>, <<"shorts", "pants">>, <<"capris", "pants">>,
   <<"cargo-pants", "pants">>, <<"wide-leg", "pants">>, <<"skinny", "pants">>,
   <<"bootcut", "pants">>, <<"straight-leg", "pants">>, <<"palazzo", "pants">>,
   <<"culottes", "pants">>,
   <<"maxi", "dress">>, <<"midi", "dress">>, <<"mini", "dress">>,
   <<"shift", "dress">>, <<"wrap", "dress">>, <<"bodycon", "dress">>,
   <<"a-line", "dress">>, <<"sheath", "dress">>, <<"fit-and-flare", "dress">>,
   <<"slip-dress", "dress">>, <<"shirt-dress", "dress">>,
   <<"sweater-dress", "dress">>, <<"cocktail", "dress">>,
   <<"pencil", "skirt">>, <<"pleated", "skirt">>, <<"circle", "skirt">>,
   <<"asymmetrical", "skirt">>, <<"high-low", "skirt">>, <<"tiered", "skirt">>,
   <<"sneakers", "shoes">>, <<"boots", "shoes">>, <<"heels", "shoes">>,
   <<"flats", "shoes">>, <<"sandals", "shoes">>, <<"loafers", "shoes">>,
   <<"oxfords", "shoes">>, <<"athletic", "shoes">>, <<"dress-shoes", "shoes">>,
   <<"ankle-boots", "shoes">>, <<"knee-boots", "shoes">>,
   <<"platform", "shoes">>, <<"wedges", "shoes">>, <<"stilettos", "shoes">>,
   <<"pumps", "shoes">>, <<"mules", "shoes">>, <<"espadrilles", "shoes">>,
   <<"clogs", "shoes">>}

\* if subcategories were found, infer main categories
InferCategories(fm) ==
  FamAddAll(fm, "category",
            {p[2] : p \in {q \in subcategory_to_category : q[1] \in fm["subcategory"]}})

\* the first element of the priority list that was matched
FirstMatched(order, matched) ==
  LET idx == {i \in 1..Len(order) : order[i] \in matched}
  IN IF idx = {} THEN None
     ELSE Some(order[CHOOSE i \in idx : \A j \in idx : i <= j])

category_priority ==
  <<"dress", "jacket", "shoes", "skirt", "pants", "shirt", "accessories",
    "outerwear", "tops", "bottoms", "activewear", "undergarments", "swimwear">>

\* category single-selection
SelectCategory_KeepsTwo(fm) ==
  IF Cardinality(fm["category"]) > 2
     /\ FirstMatched(category_priority, fm["category"]) # None
  THEN [fm EXCEPT !["category"] = FirstMatched(category_priority, fm["category"])]
  ELSE fm
SelectCategory(fm) ==
  IF Cardinality(fm["category"]) > 1
     /\ FirstMatched(category_priority, fm["category"]) # None
  THEN [fm EXCEPT !["category"] = FirstMatched(category_priority, fm["category"])]
  ELSE fm

priority_styles ==
  <<"vintage", "formal", "casual", "minimalist", "bohemian",
    "streetwear", "workwear", "preppy", "athletic", "romantic">>

\* the first (at most three) priority styles that were matched
RECURSIVE KeptStyles(_, _, _)
KeptStyles(i, matched, kept) ==
  IF i > Len(priority_styles) \/ Cardinality(kept) >= 3 THEN kept
  ELSE KeptStyles(i + 1, matched,
                  IF priority_styles[i] \in matched
                  THEN kept \cup {priority_styles[i]} ELSE kept)

\* style consolidation
ConsolidateStyles(fm) ==
  LET kept_styles == KeptStyles(1, fm["style"], {})
  IN IF Cardinality(fm["style"]) > 3 /\ kept_styles # {}
     THEN [fm EXCEPT !["style"] = kept_styles]
     ELSE fm

\* add(fam, raw) of classify_basic: out maps a family to its list of values
add(out, fam, raw) ==
  LET valn == normalize(fam, raw) IN
  IF valn = None \/ valn = Some("") THEN out
  ELSE LET v == TheValue(valn)
           cur == IF fam \in DOMAIN out THEN out[fam] ELSE <<>>
           new == IF v \in SeqToSet(cur) THEN cur ELSE Append(cur, v)
       IN [f \in DOMAIN out \cup {fam} |-> IF f = fam THEN new ELSE out[f]]

RECURSIVE AddValues(_, _, _, _)
AddValues(out, fam, vals, i) ==
  IF i > Len(vals) THEN out
  ELSE AddValues(add(out, fam, vals[i]), fam, vals, i + 1)

RECURSIVE AddFamilies(_, _, _)
AddFamilies(out, fm, fams) ==
  IF fams = {} THEN out
  ELSE LET fam == CHOOSE f \in fams : TRUE
       IN AddFamilies(AddValues(out, fam, Sorted(fm[fam]), 1), fm, fams \ {fam})

EmptyDict == [f \in {} |-> <<>>]

\* fam_matches of classify_basic when the category single-selection is reached
MatchesBeforeSelection(description) ==
  LET text == Lower(description)
      tokens == Tokenize(text)
      token_set == SeqToSet(tokens)
      m1 == TokenMatches(text, token_set)
      m2 == SynonymMatches(m1, text, token_set)
      m3 == YearEraMatches(m2, text)
      m4 == BrandMatches(m3, tokens)
      m5 == Boosts(m4, token_set)
  IN InferCategories(m5)

\* the final fam_matches of classify_basic
FamMatches(description) ==
  ConsolidateStyles(SelectCategory(MatchesBeforeSelection(description)))

classify_basic(description) ==
  LET fm == FamMatches(description)
  IN AddFamilies(EmptyDict, fm, {fam \in DOMAIN fm : fm[fam] # {}})

\* dict.get(fam) of a classification: the list, or None
AttrGet(attrs, fam) == IF fam \in DOMAIN attrs THEN attrs[fam] ELSE <<>>


-----------------------------------------------------------------------------
(* attribute_confidences (ontology.py).  Confidences are counted in units   *)
(* of 0.0001, so that 0.55 is 5500 and the cap 0.95 is 9500.                *)

\* round(x, 3): to the nearest multiple of 0.001, ties to the even one
Round3(x) ==
  LET q == x \div 10
      r == x % 10
  IN IF r < 5 THEN 10 * q
     ELSE IF r > 5 THEN 10 * (q + 1)
     ELSE IF q % 2 = 0 THEN 10 * q ELSE 10 * (q + 1)

StrongCueFamilies == {"pattern", "style", "color_primary"}

\* [i for i, t in enumerate(tokens) if t == v], zero-based
Occurrences(tokens, v) == {i \in 0..(Len(tokens) - 1) : tokens[i + 1] = v}

SetMin(S) == CHOOSE x \in S : \A y \in S : x <= y

\* the loop body of attribute_confidences for one (fam, v)
ConfidenceOf_Within31(tokens, fam, v) ==
  LET occurrences == Occurrences(tokens, v)
      b1 == IF occurrences # {} /\ SetMin(occurrences) <= 30 THEN 5500 + 2000 ELSE 5500
      b2 == IF Cardinality(occurrences) > 1 THEN b1 + 1000 ELSE b1
      b3 == IF fam \in StrongCueFamilies THEN b2 + 500 ELSE b2
      b4 == IF b3 > 9500 THEN 9500 ELSE b3
  IN Round3(b4)
ConfidenceOf(tokens, fam, v) ==
  LET occurrences == Occurrences(tokens, v)
      b1 == IF occurrences # {} /\ SetMin(occurrences) < 30 THEN 5500 + 2000 ELSE 5500
      b2 == IF Cardinality(occurrences) > 1 THEN b1 + 1000 ELSE b1
      b3 == IF fam \in StrongCueFamilies THEN b2 + 500 ELSE b2
      b4 == IF b3 > 9500 THEN 9500 ELSE b3
  IN Round3(b4)

\* the (family, value) pairs of an attribute mapping
AttrPairs(a) ==
  UNION {{<<fam, a[fam][i]>> : i \in 1..Len(a[fam])} : fam \in DOMAIN a}

attribute_confidences(description, a) ==
  LET text == Lower(description)
      tokens == AlphaTokenize(text)
  IN [k \in AttrPairs(a) |-> ConfidenceOf(tokens, k[1], k[2])]

-----------------------------------------------------------------------------
(* State                                                                   *)

VARIABLES
  \* a classifier call
  desc,             \* the description passed to the last classifier call
  attrs,            \* the attribute mapping that call returned
  conf,             \* the confidences returned by attribute_confidences
  pc,               \* position of the call
  \* ontology.py module state
  CLASSIFY_CACHE,   \* _CLASSIFY_CACHE: normalized description -> mapping
  CLASSIFY_HITS,    \* _CLASSIFY_HITS
  CLASSIFY_MISSES,  \* _CLASSIFY_MISSES
  classifyLog,      \* history of the calls since the last clear_classify_cache
  \* user_state.py module state
  query_embedding_cache,  \* _query_embedding_cache: the OrderedDict, oldest first
  queryLog,         \* history of the query-embedding cache and of the last call
  search_response,  \* what the last POST /search answered
  user_embedding_cache,   \* _user_embedding_cache: key -> centroid
  \* the database
  garments,               \* the garment table: the rows ingest has committed
  image_store,            \* the image files on disk: path -> bytes
  ingest_response,        \* what the last POST /garments/ingest answered
  interaction_events,     \* the committed InteractionEvent rows, in order
  user_preferences,       \* the UserPreference rows: <<user_id, attribute_value_id>> -> weight
  \* request threads
  threads,          \* per thread: position and locals of the request it runs
  centroidLog,      \* history: users with feedback since their last load, last call
  raceLog,          \* history: events each cached centroid saw, returned feedback
  \* a call of a pure function
  fnCall,           \* the function and its arguments
  fnResult          \* what it returned

classifyVars == <<desc, attrs, conf, pc>>
classifyCacheVars == <<CLASSIFY_CACHE, CLASSIFY_HITS, CLASSIFY_MISSES, classifyLog>>
queryCacheVars == <<query_embedding_cache, queryLog, search_response>>
ingestVars == <<garments, image_store, ingest_response>>
feedbackVars ==
  <<user_embedding_cache, interaction_events, user_preferences, threads,
    centroidLog, raceLog>>
pureVars == <<fnCall, fnResult>>
vars == <<desc, attrs, conf, pc,
          CLASSIFY_CACHE, CLASSIFY_HITS, CLASSIFY_MISSES, classifyLog,
          query_embedding_cache, queryLog, search_response,
          garments, image_store, ingest_response,
          user_embedding_cache, interaction_events, user_preferences, threads,
          centroidLog, raceLog,
          fnCall, fnResult>>

EmptyConf == [k \in {} |-> 0]

\* the state of each part of the program right after import
ClassifierIdle ==
  /\ desc = ""
  /\ attrs = EmptyDict
  /\ conf = EmptyConf
  /\ pc = "idle"
ClassifyCacheNew ==
  /\ CLASSIFY_CACHE = EmptyDict
  /\ CLASSIFY_HITS = 0
  /\ CLASSIFY_MISSES = 0
  /\ classifyLog = [calls |-> 0, seen |-> {}, overflowed |-> FALSE]
QueryCacheNew ==
  /\ query_embedding_cache = <<>>
  /\ queryLog = [inserted |-> <<>>, used |-> <<>>, call |-> [kind |-> "none"]]
  /\ search_response = [kind |-> "none"]
IngestNew ==
  /\ garments = <<>>
  /\ image_store = [path \in {} |-> ""]
  /\ ingest_response = [kind |-> "none"]

NoLoad == [done |-> FALSE, emb |-> None, upto |-> 0, need |-> 0]
IdleThread ==
  [pc |-> "idle", user_id |-> "", event |-> 0, emb |-> None, upto |-> 0,
   positive |-> NoLoad, negative |-> NoLoad]
ThreadIds == {"f1", "s1", "s2"}
ThreadsIdle == threads = [t \in ThreadIds |-> IdleThread]
FeedbackNew ==
  /\ user_embedding_cache = [k \in {} |-> <<>>]
  /\ interaction_events = <<>>
  /\ user_preferences = [k \in {} |-> <<0, 0>>]
  /\ centroidLog = [fresh |-> {}, accepted |-> <<>>, last |-> [u \in {} |-> {}],
                    call |-> [kind |-> "none"]]
  /\ raceLog = [upto |-> [k \in {} |-> 0], returned |-> {}]

NotCalled == [done |-> FALSE]
PureIdle ==
  /\ fnCall = [name |-> "none"]
  /\ fnResult = NotCalled

-----------------------------------------------------------------------------
(* Classifier calls: classify_basic and attribute_confidences              *)

MaxWords == 2
MaxPad == 31

Corpus ==
  {"A vintage graphic band tee in soft cream cotton with relaxed fit",
   "A casual summer dress layered over a long sleeve shirt with a graphic print",
   "An elegant skirted hem silhouette with tailored finish",
   "A vintage graphic crew neckline short sleeve cotton tee in beige",
   "A red red vintage tee with crew crew neckline",
   "A vintage graphic tee", "A floral dress", "from 1995", "a 1990s dress",
   " Levi's by nike ", "classic retro casual formal preppy punk", "nude", ""}

WordPool ==
  {"dress", "shirt", "jacket", "skirt", "tee", "denim", "outerwear", "tops",
   "cardigan", "Swimwear"}
Separators == {" ", "-"}

RECURSIVE Phrases(_)
Phrases(n) ==
  IF n = 1 THEN WordPool
  ELSE {p \o s \o w : p \in Phrases(n - 1), s \in Separators, w \in WordPool}
ClassifyInputs == Corpus \cup UNION {Phrases(n) : n \in 1..MaxWords}

RECURSIVE Repeat(_, _)
Repeat(s, n) == IF n = 0 THEN "" ELSE s \o Repeat(s, n - 1)

ConfBodies ==
  {"red", "Red dress red", "a vintage tee", "1990s t-shirt", "crew crew neckline"}
ConfInputs == {Repeat("x ", n) \o b : n \in 0..MaxPad, b \in ConfBodies}
ConfAttrs ==
  {EmptyDict,
   [color_primary |-> <<"red">>, category |-> <<"dress">>],
   [style |-> <<"vintage">>, era |-> <<"1990s">>, neckline |-> <<"crew">>]}

InitClassify ==
  /\ desc \in ClassifyInputs
  /\ attrs = EmptyDict
  /\ conf = EmptyConf
  /\ pc = "call"
  /\ ClassifyCacheNew /\ QueryCacheNew /\ IngestNew
  /\ FeedbackNew /\ ThreadsIdle /\ PureIdle

InitConf ==
  /\ desc \in ConfInputs
  /\ attrs \in ConfAttrs
  /\ conf = EmptyConf
  /\ pc = "call"
  /\ ClassifyCacheNew /\ QueryCacheNew /\ IngestNew
  /\ FeedbackNew /\ ThreadsIdle /\ PureIdle

\* attrs = classify_basic(desc)
Classify ==
  /\ pc = "call"
  /\ attrs' = classify_basic(desc)
  /\ pc' = "classified"
  /\ UNCHANGED <<desc, conf, classifyCacheVars, queryCacheVars, ingestVars, feedbackVars, pureVars>>

\* conf = attribute_confidences(desc, attrs)
Confidences ==
  /\ pc \in {"call", "classified"}
  /\ conf' = attribute_confidences(desc, attrs)
  /\ pc' = "scored"
  /\ UNCHANGED <<desc, attrs, classifyCacheVars, queryCacheVars, ingestVars, feedbackVars, pureVars>>

NextClassify == Classify
SpecClassify == InitClassify /\ [][NextClassify]_vars

NextConf == Classify \/ Confidences
SpecConf == InitConf /\ [][NextConf]_vars

-----------------------------------------------------------------------------
(* The classification cache: classify_basic_cached, classify_cache_stats,  *)
(* clear_classify_cache (ontology.py)                                      *)

\* The size bound tested by classify_basic_cached.  The program uses 2048;
\* the model runs the same code with a small bound.
CLASSIFY_CACHE_LIMIT == 2
\* calls made between two clear_classify_cache calls
MaxClassifyCalls == 6

CacheWords == <<"skirt", "jacket", "tee", "denim jacket", "tops", "cardigan", "shirt">>
\* enough distinct descriptions to overflow the cache, and two spellings of
\* one description
CacheInputs ==
  {"A floral dress", "  a FLORAL dress "}
  \cup {"A floral " \o CacheWords[i] : i \in 1..(CLASSIFY_CACHE_LIMIT + 1)}

\* key = description.strip().lower()
ClassifyCacheKey_Prefix(description) == SubSeq(Lower(Strip(description)), 1, 8)
ClassifyCacheKey(description) == Lower(Strip(description))

\* round(hits / total, 4) in units of 0.0001, ties to even
RoundRatio4_Truncating(n, d) == (10000 * n) \div d
RoundRatio4(n, d) ==
  LET q == (10000 * n) \div d
      r == (10000 * n) % d
  IN IF 2 * r < d THEN q
     ELSE IF 2 * r > d THEN q + 1
     ELSE IF q % 2 = 0 THEN q ELSE q + 1

classify_cache_stats ==
  LET total == CLASSIFY_HITS + CLASSIFY_MISSES
      hit_rate == IF total # 0 THEN RoundRatio4(CLASSIFY_HITS, total) ELSE 0
  IN [size |-> Cardinality(DOMAIN CLASSIFY_CACHE),
      hits |-> CLASSIFY_HITS,
      misses |-> CLASSIFY_MISSES,
      hit_rate |-> hit_rate]

\* the miss counter after a miss, with the miss of an overflowing call
\* counted after the reset
MissesAfterMiss_ResetFirst(overflow, misses) == IF overflow THEN 1 ELSE misses + 1

\* _CLASSIFY_MISSES after a miss: incremented, then reset with the cache
\* when the call overflows
MissesAfterMiss(overflow, misses) == IF overflow THEN 0 ELSE misses + 1

classify_basic_cached(description) ==
  LET key == ClassifyCacheKey(description)
      hit == key \in DOMAIN CLASSIFY_CACHE
      result == classify_basic(description)
      overflow == Cardinality(DOMAIN CLASSIFY_CACHE) > CLASSIFY_CACHE_LIMIT
      kept == IF overflow THEN EmptyDict ELSE CLASSIFY_CACHE
  IN /\ classifyLog.calls < MaxClassifyCalls
     /\ IF hit
        THEN /\ CLASSIFY_HITS' = CLASSIFY_HITS + 1
             /\ attrs' = CLASSIFY_CACHE[key]
             /\ UNCHANGED <<CLASSIFY_CACHE, CLASSIFY_MISSES>>
        ELSE /\ CLASSIFY_MISSES' = MissesAfterMiss(overflow, CLASSIFY_MISSES)
             /\ CLASSIFY_HITS' = IF overflow THEN 0 ELSE CLASSIFY_HITS
             /\ CLASSIFY_CACHE' =
                  [k \in DOMAIN kept \cup {key} |-> IF k = key THEN result ELSE kept[k]]
             /\ attrs' = result
     /\ desc' = description
     /\ pc' = "returned"
     /\ classifyLog' = [calls |-> classifyLog.calls + 1,
                        seen |-> classifyLog.seen \cup {Lower(Strip(description))},
                        overflowed |-> classifyLog.overflowed \/ (~hit /\ overflow)]
     /\ UNCHANGED <<conf, queryCacheVars, ingestVars, feedbackVars, pureVars>>

clear_classify_cache ==
  /\ CLASSIFY_CACHE' = EmptyDict
  /\ CLASSIFY_HITS' = 0
  /\ CLASSIFY_MISSES' = 0
  /\ classifyLog' = [calls |-> 0, seen |-> {}, overflowed |-> FALSE]
  /\ pc' = "cleared"
  /\ UNCHANGED <<desc, attrs, conf, queryCacheVars, ingestVars, feedbackVars, pureVars>>

InitClassifyCache ==
  /\ ClassifierIdle /\ ClassifyCacheNew /\ QueryCacheNew /\ IngestNew
  /\ FeedbackNew /\ ThreadsIdle /\ PureIdle
NextClassifyCache ==
  \/ \E description \in CacheInputs : classify_basic_cached(description)
  \/ clear_classify_cache
SpecClassifyCache == InitClassifyCache /\ [][NextClassifyCache]_vars

-----------------------------------------------------------------------------
(* The query-embedding cache: _LRU.get_or_set, cache_query_embedding       *)
(* (user_state.py) and parse_query (query_pipeline.py)                     *)

\* Capacity of _query_embedding_cache.  The program uses 256; the model runs
\* the same code with a small capacity.
MAX_QUERY_CACHE == 2

QueryWords == <<"blue", "tan", "navy", "plum", "teal", "rust">>
\* two spellings of one query, a blank query, and enough distinct queries to
\* overflow the cache
QueryTexts ==
  {"red dress", " Red Dress ", "   "}
  \cup {QueryWords[i] : i \in 1..MAX_QUERY_CACHE}

\* An OrderedDict is the sequence of its <<key, value>> items, oldest first.
KeysOf(od) == {od[i][1] : i \in 1..Len(od)}
ValueOf(od, key) == od[CHOOSE i \in 1..Len(od) : od[i][1] = key][2]
KeySeq(od) == [i \in 1..Len(od) |-> od[i][1]]
IsKey(item, key) == item[1] = key
\* od.pop(key)
Without(od, key) ==
  LET idx == CHOOSE i \in 1..Len(od) : od[i][1] = key
  IN SubSeq(od, 1, idx - 1) \o SubSeq(od, idx + 1, Len(od))

\* _LRU.get_or_set(key, factory): `produced` is what factory() returns if it
\* is called.  Yields the dictionary afterwards, the returned value and the
\* number of factory calls made.
get_or_set_NoTouch(self, maxsize, key, produced) ==
  IF key \in KeysOf(self)
  THEN [self |-> self, val |-> ValueOf(self, key), factory_calls |-> 0]
  ELSE LET stored == Append(self, <<key, produced>>)
       IN [self |-> IF Len(stored) > maxsize THEN Tail(stored) ELSE stored,
           val |-> produced,
           factory_calls |-> 1]
get_or_set_Recompute(self, maxsize, key, produced) ==
  LET stored == Append(IF key \in KeysOf(self) THEN Without(self, key) ELSE self,
                       <<key, produced>>)
  IN [self |-> IF Len(stored) > maxsize THEN Tail(stored) ELSE stored,
      val |-> produced,
      factory_calls |-> 1]
get_or_set(self, maxsize, key, produced) ==
  IF key \in KeysOf(self)
  THEN LET val == ValueOf(self, key)
       IN [self |-> Append(Without(self, key), <<key, val>>),
           val |-> val,
           factory_calls |-> 0]
  ELSE LET stored == Append(self, <<key, produced>>)
       IN [self |-> IF Len(stored) > maxsize THEN Tail(stored) ELSE stored,
           val |-> produced,
           factory_calls |-> 1]

\* cache_query_embedding(text, embed_fn): `produced` is what embed_fn(text)
\* returns if it is called.  The returned value is optional.
cache_query_embedding(cache, text, produced) ==
  LET text_norm == Lower(Strip(text))
  IN IF text_norm = ""
     THEN [self |-> cache, val |-> None, factory_calls |-> 0]
     ELSE LET r == get_or_set(cache, MAX_QUERY_CACHE, text_norm, produced)
          IN [self |-> r.self, val |-> Some(r.val), factory_calls |-> r.factory_calls]

\* The embedding service: a vector determined by the exact text it is given,
\* here (length, number of upper-case letters).
EmbeddingOf(t) ==
  <<Len(t), Cardinality({i \in 1..Len(t) : Char(t, i) \in UpperSet})>>
\* embed_text(client, t): the vector, or [] when the service call raises
embed_text(t, service_ok) == IF service_ok THEN EmbeddingOf(t) ELSE <<>>

\* the keys of a sequence of keys, after one more use of `key`
Touched(order, key) == Append(SelectSeq(order, LAMBDA k : k # key), key)
Restricted(order, keys) == SelectSeq(order, LAMBDA k : k \in keys)

\* parse_query(text): one extraction call, then the embedding through the
\* cache.  extractor_ok = FALSE is extract_preferences raising, which
\* parse_query does not catch.
ParseQueryEffect(text, extractor_ok, service_ok) ==
  LET stripped == Strip(text)
      norm == Lower(Strip(stripped))
      before == query_embedding_cache
      r == cache_query_embedding(before, stripped, embed_text(stripped, service_ok))
      blank == stripped = ""
      raised == ~blank /\ ~extractor_ok
      after == IF blank \/ raised THEN before ELSE r.self
      present == norm \in KeysOf(before)
      reached == ~blank /\ ~raised
  IN /\ query_embedding_cache' = after
     /\ queryLog' =
          [inserted |->
             IF reached /\ ~present
             THEN Restricted(Append(queryLog.inserted, norm), KeysOf(after))
             ELSE queryLog.inserted,
           used |->
             IF reached
             THEN Restricted(Touched(queryLog.used, norm), KeysOf(after))
             ELSE queryLog.used,
           call |->
             [kind |-> IF raised THEN "raised" ELSE IF blank THEN "blank" ELSE "parsed",
              text |-> text,
              raw |-> stripped,
              key |-> norm,
              present |-> present,
              stored |-> IF present THEN Some(ValueOf(before, norm)) ELSE None,
              overflow |-> reached /\ ~present /\ Len(before) >= MAX_QUERY_CACHE,
              oldest_inserted |-> Head(Append(queryLog.inserted, norm)),
              least_recent |-> Head(Append(queryLog.used, norm)),
              evicted |-> (KeysOf(before) \cup {norm}) \ KeysOf(after),
              extract_calls |-> IF blank THEN 0 ELSE 1,
              embed_calls |-> IF reached THEN r.factory_calls ELSE 0,
              produced |-> embed_text(stripped, service_ok),
              text_embedding |-> IF reached THEN r.val ELSE None]]

\* a direct call of parse_query
parse_query(text, extractor_ok, service_ok) ==
  /\ ParseQueryEffect(text, extractor_ok, service_ok)
  /\ UNCHANGED <<search_response, ingestVars, classifyVars, classifyCacheVars,
                 feedbackVars, pureVars>>

InitQueryCache ==
  /\ ClassifierIdle /\ ClassifyCacheNew /\ QueryCacheNew /\ IngestNew
  /\ FeedbackNew /\ ThreadsIdle /\ PureIdle
NextQueryCache ==
  \E text \in QueryTexts, extractor_ok \in BOOLEAN, service_ok \in BOOLEAN :
    parse_query(text, extractor_ok, service_ok)
SpecQueryCache == InitQueryCache /\ [][NextQueryCache]_vars

-----------------------------------------------------------------------------
(* Scoring functions of query_pipeline.py                                  *)

\* sum(x * y for x, y in zip(a, b)) over the first n components
RECURSIVE SumProducts(_, _, _)
SumProducts(a, b, n) ==
  IF n = 0 THEN FZero
  ELSE FAdd(SumProducts(a, b, n - 1), FMul(a[n], b[n]))

MinLen(a, b) == IF Len(a) < Len(b) THEN Len(a) ELSE Len(b)

\* dot / (na * nb), or 0.0 when a norm is 0
CosOf(dot, na, nb) ==
  IF na = FZero \/ nb = FZero THEN FZero ELSE FDiv(dot, FMul(na, nb))

\* _cos with the norms taken over the whole vectors
cos_WholeNorms(a, b) ==
  IF a = <<>> \/ b = <<>> THEN FZero
  ELSE CosOf(SumProducts(a, b, MinLen(a, b)),
             FSqrt(SumProducts(a, a, Len(a))),
             FSqrt(SumProducts(b, b, Len(b))))

\* _cos(a, b): the sums run over zip(a, b), the common prefix
cos(a, b) ==
  IF a = <<>> \/ b = <<>> THEN FZero
  ELSE CosOf(SumProducts(a, b, MinLen(a, b)),
             FSqrt(SumProducts(a, a, MinLen(a, b))),
             FSqrt(SumProducts(b, b, MinLen(a, b))))

\* vectors of up to MaxDim integer-valued components
MaxDim == 2
Components == {-1, 0, 1, 3}
RECURSIVE VectorsOfLen(_)
VectorsOfLen(n) ==
  IF n = 0 THEN {<<>>}
  ELSE {Append(v, FInt(c)) : v \in VectorsOfLen(n - 1), c \in Components}
CosVectors == UNION {VectorsOfLen(n) : n \in 0..MaxDim}

InitCos ==
  /\ ClassifierIdle /\ ClassifyCacheNew /\ QueryCacheNew /\ IngestNew
  /\ FeedbackNew /\ ThreadsIdle
  /\ fnCall \in {[name |-> "cos", a |-> a, b |-> b] : a \in CosVectors, b \in CosVectors}
  /\ fnResult = NotCalled
Cos ==
  /\ fnCall.name = "cos"
  /\ ~fnResult.done
  /\ fnResult' = [done |-> TRUE,
                  ab |-> cos(fnCall.a, fnCall.b),
                  ba |-> cos(fnCall.b, fnCall.a),
                  aa |-> cos(fnCall.a, fnCall.a),
                  truncated |-> cos(SubSeq(fnCall.a, 1, MinLen(fnCall.a, fnCall.b)),
                                    SubSeq(fnCall.b, 1, MinLen(fnCall.a, fnCall.b)))]
  /\ UNCHANGED <<fnCall, classifyVars, classifyCacheVars, queryCacheVars, ingestVars, feedbackVars>>
NextCos == Cos
SpecCos == InitCos /\ [][NextCos]_vars

\* parsed.attributes is a sequence of <<family, set of values>> in the
\* insertion order of the dict; garment.attributes is a set of <<family, value>>.
FamilyValues(garment_attributes, fam) ==
  {p[2] : p \in {q \in garment_attributes : q[1] = fam}}

\* the loop of _attribute_overlap_score over the first n query families
RECURSIVE OverlapLoop(_, _, _)
OverlapLoop(query_attributes, garment_attributes, n) ==
  IF n = 0 THEN [accum |-> FZero, counted |-> 0, details |-> <<>>]
  ELSE LET acc == OverlapLoop(query_attributes, garment_attributes, n - 1)
           fam == query_attributes[n][1]
           qset == query_attributes[n][2]
           gset == FamilyValues(garment_attributes, fam)
           inter_vals == qset \cap gset
           union_set == qset \cup gset
           jacc == FDiv(FInt(Cardinality(inter_vals)), FInt(Cardinality(union_set)))
       IN IF gset = {} THEN acc
          ELSE [accum |-> FAdd(acc.accum, jacc),
                counted |-> acc.counted + 1,
                details |-> Append(acc.details,
                                   [family |-> fam, query_values |-> qset,
                                    garment_values |-> gset,
                                    overlap_values |-> inter_vals,
                                    jaccard |-> jacc])]

\* the overall score with the accumulated sum divided by the number of
\* query families, the skipped ones included
attribute_overlap_score_AllFamilies(query_attributes, garment_attributes) ==
  IF query_attributes = <<>> \/ garment_attributes = {} THEN <<FZero, <<>>>>
  ELSE LET acc == OverlapLoop(query_attributes, garment_attributes,
                              Len(query_attributes))
       IN IF acc.counted = 0 THEN <<FZero, <<>>>>
          ELSE <<FDiv(acc.accum, FInt(Len(query_attributes))), acc.details>>

\* _attribute_overlap_score(parsed, garment): <<overall, details>>
attribute_overlap_score(query_attributes, garment_attributes) ==
  IF query_attributes = <<>> \/ garment_attributes = {} THEN <<FZero, <<>>>>
  ELSE LET acc == OverlapLoop(query_attributes, garment_attributes,
                              Len(query_attributes))
       IN IF acc.counted = 0 THEN <<FZero, <<>>>>
          ELSE <<FDiv(acc.accum, FInt(acc.counted)), acc.details>>

OverlapFamilies == {"color_primary", "style"}
OverlapValues == {"red", "vintage"}
AttributePairs == OverlapFamilies \X OverlapValues
\* query mappings: no family, one family, or both in either order
QueryMappings ==
  {<<>>}
  \cup {<<<<f, vs>>>> : f \in OverlapFamilies, vs \in SUBSET OverlapValues}
  \cup {<<<<f, vs>>, <<g, ws>>>> :
          f \in OverlapFamilies, g \in OverlapFamilies,
          vs \in SUBSET OverlapValues, ws \in SUBSET OverlapValues}
\* the query's value set for a family (the last entry wins, as in a dict)
QueryValues(query_attributes, fam) ==
  UNION {query_attributes[i][2] :
           i \in {j \in 1..Len(query_attributes) : query_attributes[j][1] = fam}}
DistinctFamilies(query_attributes) ==
  \A i, j \in 1..Len(query_attributes) :
    query_attributes[i][1] = query_attributes[j][1] => i = j

InitOverlap ==
  /\ ClassifierIdle /\ ClassifyCacheNew /\ QueryCacheNew /\ IngestNew
  /\ FeedbackNew /\ ThreadsIdle
  /\ fnCall \in {[name |-> "overlap", query |-> q, garment |-> g, added |-> p] :
                   q \in {m \in QueryMappings : DistinctFamilies(m)},
                   g \in SUBSET AttributePairs, p \in AttributePairs}
  /\ fnResult = NotCalled
Overlap ==
  /\ fnCall.name = "overlap"
  /\ ~fnResult.done
  /\ fnResult' =
       [done |-> TRUE,
        before |-> attribute_overlap_score(fnCall.query, fnCall.garment)[1],
        details |-> attribute_overlap_score(fnCall.query, fnCall.garment)[2],
        after |-> attribute_overlap_score(fnCall.query,
                                          fnCall.garment \cup {fnCall.added})[1]]
  /\ UNCHANGED <<fnCall, classifyVars, classifyCacheVars, queryCacheVars, ingestVars, feedbackVars>>
NextOverlap == Overlap
SpecOverlap == InitOverlap /\ [][NextOverlap]_vars

-----------------------------------------------------------------------------
(* User centroids: set_user_embedding, get_user_embedding,                 *)
(* combine_embeddings (user_state.py), _load_user_positive_embedding,      *)
(* _load_user_negative_embedding (query_pipeline.py) and the /feedback     *)
(* handler (api/feedback.py)                                               *)

\* An embedding component is the exact rational <<numerator, denominator>> in
\* lowest terms: the stored embeddings are integer valued, the sums of
\* combine_embeddings are exact and its mean is one division (see FloatOf).
RECURSIVE GCD(_, _)
GCD(a, b) == IF b = 0 THEN a ELSE GCD(b, a % b)
Abs(n) == IF n < 0 THEN -n ELSE n
Rat(n, d) == LET g == GCD(Abs(n), d) IN <<n \div g, d \div g>>
RatAdd(x, y) == Rat(x[1] * y[2] + y[1] * x[2], x[2] * y[2])
\* x / n for an integer count n >= 1
RatDivInt(x, n) == Rat(x[1], x[2] * n)
Vec(ints) == [i \in 1..Len(ints) |-> Rat(ints[i], 1)]

\* The Garment rows: description_embedding per garment id (None when the
\* garment has no embedding).  The catalogue does not change.
GarmentIds == {1, 2, 3, 4}
description_embedding ==
  [g \in GarmentIds |->
     IF g = 1 THEN Some(Vec(<<1, 0>>))
     ELSE IF g = 2 THEN Some(Vec(<<-1, 1>>))
     ELSE None]
\* the AttributeValue rows, by id, and the attribute_value_id of the
\* GarmentAttribute rows of each garment
attribute_value ==
  [id \in {1, 2} |-> IF id = 1 THEN <<"color_primary", "red">>
                     ELSE <<"style", "vintage">>]
garment_attributes ==
  [g \in GarmentIds |->
     IF g = 1 THEN <<1, 2>> ELSE IF g = 3 THEN <<1>> ELSE <<>>]

Users == {"u", "u__neg"}
ConcurrentUsers == {"u"}
AcceptedActions == {"like", "dislike", "view", "click"}
\* the event types the feedback requests of the model carry
RequestActions == {"like", "dislike", " Like", "share"}
\* req.weight: omitted, or a float
RequestWeights == {None, Some(FLit(1, 2))}
ConcurrentWeights == {None}

\* a bound on the number of InteractionEvent rows
MaxEvents == 2

\* _user_embedding_cache keys
PositiveKey(user_id) == user_id
NegativeKey(user_id) == user_id \o "__neg"

\* get_user_embedding(user_id): _user_embedding_cache.get(user_id)
get_user_embedding(cache, key) ==
  IF key \in DOMAIN cache THEN Some(cache[key]) ELSE None

\* set_user_embedding(user_id, emb): store a non-empty emb, otherwise pop
set_user_embedding(cache, key, emb) ==
  IF emb # None /\ TheValue(emb) # <<>>
  THEN [k \in DOMAIN cache \cup {key} |-> IF k = key THEN TheValue(emb) ELSE cache[k]]
  ELSE [k \in DOMAIN cache \ {key} |-> cache[k]]

RECURSIVE SumAt(_, _, _)
SumAt(vectors, i, n) ==
  IF n = 0 THEN Rat(0, 1) ELSE RatAdd(SumAt(vectors, i, n - 1), vectors[n][i])

\* combine_embeddings(vectors): the component-wise mean over the shortest
\* length, None for no vectors or a zero length
combine_embeddings(vectors) ==
  IF vectors = <<>> THEN None
  ELSE LET length == SetMin({Len(vectors[j]) : j \in 1..Len(vectors)})
       IN IF length = 0 THEN None
          ELSE Some([i \in 1..length |->
                       RatDivInt(SumAt(vectors, i, Len(vectors)), Len(vectors))])

\* the description embeddings of the garments of the user's events of the
\* given types, one per event, skipping garments without an embedding
RECURSIVE EventVectors(_, _, _)
EventVectors(rows, user_id, types) ==
  IF rows = <<>> THEN <<>>
  ELSE LET ev == Head(rows)
           rest == EventVectors(Tail(rows), user_id, types)
           counted == /\ ev.user_id = user_id
                      /\ ev.event_type \in types
                      /\ ev.garment_id \in GarmentIds
                      /\ description_embedding[ev.garment_id] # None
                      /\ TheValue(description_embedding[ev.garment_id]) # <<>>
       IN IF counted
          THEN <<TheValue(description_embedding[ev.garment_id])>> \o rest
          ELSE rest

PositiveTypes == {"like", "click"}
NegativeTypes == {"dislike"}

\* _load_user_positive_embedding / _load_user_negative_embedding run in one
\* piece: yields the cache afterwards and the returned centroid
LoadCentroid(cache, rows, user_id, key, types) ==
  IF user_id = "" THEN [cache |-> cache, emb |-> None, hit |-> FALSE]
  ELSE LET cached == get_user_embedding(cache, key)
       IN IF cached # None THEN [cache |-> cache, emb |-> cached, hit |-> TRUE]
          ELSE LET emb == combine_embeddings(EventVectors(rows, user_id, types))
               IN [cache |-> set_user_embedding(cache, key, emb),
                   emb |-> emb, hit |-> FALSE]
load_user_positive_embedding(cache, rows, user_id) ==
  LoadCentroid(cache, rows, user_id, PositiveKey(user_id), PositiveTypes)
load_user_negative_embedding(cache, rows, user_id) ==
  LoadCentroid(cache, rows, user_id, NegativeKey(user_id), NegativeTypes)

\* the two invalidations at the end of the /feedback handler
InvalidateUser(cache, user_id) ==
  set_user_embedding(set_user_embedding(cache, PositiveKey(user_id), None),
                     NegativeKey(user_id), None)

-----------------------------------------------------------------------------
(* Ranking: retrieve_and_rank (query_pipeline.py)                          *)

\* math.tanh on [2^-4, 4): TanhTable[b + 5][m - 127] is tanh(m * 2^(b - 7))
TanhTable ==
  <<
    <<
     <<128, -11>>, <<129, -11>>, <<130, -11>>, <<131, -11>>, <<132, -11>>, <<133, -11>>, <<134, -11>>, <<135, -11>>,
     <<136, -11>>, <<137, -11>>, <<138, -11>>, <<139, -11>>, <<140, -11>>, <<141, -11>>, <<142, -11>>, <<143, -11>>,
     <<144, -11>>, <<145, -11>>, <<146, -11>>, <<147, -11>>, <<148, -11>>, <<149, -11>>, <<150, -11>>, <<151, -11>>,
     <<152, -11>>, <<153, -11>>, <<154, -11>>, <<155, -11>>, <<156, -11>>, <<157, -11>>, <<158, -11>>, <<159, -11>>,
     <<160, -11>>, <<161, -11>>, <<162, -11>>, <<163, -11>>, <<164, -11>>, <<165, -11>>, <<166, -11>>, <<167, -11>>,
     <<168, -11>>, <<169, -11>>, <<170, -11>>, <<171, -11>>, <<172, -11>>, <<173, -11>>, <<174, -11>>, <<175, -11>>,
     <<176, -11>>, <<177, -11>>, <<178, -11>>, <<179, -11>>, <<180, -11>>, <<181, -11>>, <<182, -11>>, <<183, -11>>,
     <<184, -11>>, <<184, -11>>, <<185, -11>>, <<186, -11>>, <<187, -11>>, <<188, -11>>, <<189, -11>>, <<190, -11>>,
     <<191, -11>>, <<192, -11>>, <<193, -11>>, <<194, -11>>, <<195, -11>>, <<196, -11>>, <<197, -11>>, <<198, -11>>,
     <<199, -11>>, <<200, -11>>, <<201, -11>>, <<202, -11>>, <<203, -11>>, <<204, -11>>, <<205, -11>>, <<206, -11>>,
     <<207, -11>>, <<208, -11>>, <<209, -11>>, <<210, -11>>, <<211, -11>>, <<212, -11>>, <<213, -11>>, <<214, -11>>,
     <<215, -11>>, <<216, -11>>, <<217, -11>>, <<218, -11>>, <<219, -11>>, <<220, -11>>, <<221, -11>>, <<222, -11>>,
     <<223, -11>>, <<224, -11>>, <<225, -11>>, <<226, -11>>, <<227, -11>>, <<228, -11>>, <<229, -11>>, <<230, -11>>,
     <<231, -11>>, <<232, -11>>, <<233, -11>>, <<234, -11>>, <<235, -11>>, <<236, -11>>, <<237, -11>>, <<238, -11>>,
     <<239, -11>>, <<240, -11>>, <<241, -11>>, <<242, -11>>, <<243, -11>>, <<244, -11>>, <<245, -11>>, <<246, -11>>,
     <<247, -11>>, <<248, -11>>, <<249, -11>>, <<250, -11>>, <<251, -11>>, <<252, -11>>, <<253, -11>>, <<254, -11>>
    >>,
    <<
     <<255, -11>>, <<128, -10>>, <<129, -10>>, <<130, -10>>, <<131, -10>>, <<132, -10>>, <<133, -10>>, <<134, -10>>,
     <<135, -10>>, <<136, -10>>, <<137, -10>>, <<138, -10>>, <<139, -10>>, <<140, -10>>, <<141, -10>>, <<142, -10>>,
     <<143, -10>>, <<144, -10>>, <<145, -10>>, <<146, -10>>, <<147, -10>>, <<148, -10>>, <<149, -10>>, <<150, -10>>,
     <<151, -10>>, <<152, -10>>, <<153, -10>>, <<154, -10>>, <<155, -10>>, <<156, -10>>, <<157, -10>>, <<158, -10>>,
     <<159, -10>>, <<160, -10>>, <<161, -10>>, <<162, -10>>, <<163, -10>>, <<164, -10>>, <<165, -10>>, <<166, -10>>,
     <<167, -10>>, <<167, -10>>, <<168, -10>>, <<169, -10>>, <<170, -10>>, <<171, -10>>, <<172, -10>>, <<173, -10>>,
     <<174, -10>>, <<175, -10>>, <<176, -10>>, <<177, -10>>, <<178, -10>>, <<179, -10>>, <<180, -10>>, <<181, -10>>,
     <<182, -10>>, <<183, -10>>, <<184, -10>>, <<185, -10>>, <<186, -10>>, <<187, -10>>, <<188, -10>>, <<189, -10>>,
     <<190, -10>>, <<191, -10>>, <<192, -10>>, <<193, -10>>, <<194, -10>>, <<195, -10>>, <<196, -10>>, <<197, -10>>,
     <<197, -10>>, <<198, -10>>, <<199, -10>>, <<200, -10>>, <<201, -10>>, <<202, -10>>, <<203, -10>>, <<204, -10>>,
     <<205, -10>>, <<206, -10>>, <<207, -10>>, <<208, -10>>, <<209, -10>>, <<210, -10>>, <<211, -10>>, <<212, -10>>,
     <<213, -10>>, <<214, -10>>, <<215, -10>>, <<216, -10>>, <<217, -10>>, <<218, -10>>, <<219, -10>>, <<220, -10>>,
     <<220, -10>>, <<221, -10>>, <<222, -10>>, <<223, -10>>, <<224, -10>>, <<225, -10>>, <<226, -10>>, <<227, -10>>,
     <<228, -10>>, <<229, -10>>, <<230, -10>>, <<231, -10>>, <<232, -10>>, <<233, -10>>, <<234, -10>>, <<235, -10>>,
     <<236, -10>>, <<237, -10>>, <<238, -10>>, <<239, -10>>, <<239, -10>>, <<240, -10>>, <<241, -10>>, <<242, -10>>,
     <<243, -10>>, <<244, -10>>, <<245, -10>>, <<246, -10>>, <<247, -10>>, <<248, -10>>, <<249, -10>>, <<250, -10>>
    >>,
    <<
     <<251, -10>>, <<253, -10>>, <<255, -10>>, <<128, -9>>, <<129, -9>>, <<130, -9>>, <<131, -9>>, <<132, -9>>,
     <<133, -9>>, <<134, -9>>, <<135, -9>>, <<136, -9>>, <<137, -9>>, <<138, -9>>, <<138, -9>>, <<139, -9>>,
     <<140, -9>>, <<141, -9>>, <<142, -9>>, <<143, -9>>, <<144, -9>>, <<145, -9>>, <<146, -9>>, <<147, -9>>,
     <<148, -9>>, <<149, -9>>, <<150, -9>>, <<150, -9>>, <<151, -9>>, <<152, -9>>, <<153, -9>>, <<154, -9>>,
     <<155, -9>>, <<156, -9>>, <<157, -9>>, <<158, -9>>, <<159, -9>>, <<160, -9>>, <<160, -9>>, <<161, -9>>,
     <<162, -9>>, <<163, -9>>, <<164, -9>>, <<165, -9>>, <<166, -9>>, <<167, -9>>, <<168, -9>>, <<168, -9>>,
     <<169, -9>>, <<170, -9>>, <<171, -9>>, <<172, -9>>, <<173, -9>>, <<174, -9>>, <<175, -9>>, <<176, -9>>,
     <<176, -9>>, <<177, -9>>, <<178, -9>>, <<179, -9>>, <<180, -9>>, <<181, -9>>, <<182, -9>>, <<183, -9>>,
     <<183, -9>>, <<184, -9>>, <<185, -9>>, <<186, -9>>, <<187, -9>>, <<188, -9>>, <<189, -9>>, <<190, -9>>,
     <<190, -9>>, <<191, -9>>, <<192, -9>>, <<193, -9>>, <<194, -9>>, <<195, -9>>, <<196, -9>>, <<196, -9>>,
     <<197, -9>>, <<198, -9>>, <<199, -9>>, <<200, -9>>, <<201, -9>>, <<202, -9>>, <<202, -9>>, <<203, -9>>,
     <<204, -9>>, <<205, -9>>, <<206, -9>>, <<207, -9>>, <<207, -9>>, <<208, -9>>, <<209, -9>>, <<210, -9>>,
     <<211, -9>>, <<212, -9>>, <<212, -9>>, <<213, -9>>, <<214, -9>>, <<215, -9>>, <<216, -9>>, <<217, -9>>,
     <<217, -9>>, <<218, -9>>, <<219, -9>>, <<220, -9>>, <<221, -9>>, <<221, -9>>, <<222, -9>>, <<223, -9>>,
     <<224, -9>>, <<225, -9>>, <<225, -9>>, <<226, -9>>, <<227, -9>>, <<228, -9>>, <<229, -9>>, <<229, -9>>,
     <<230, -9>>, <<231, -9>>, <<232, -9>>, <<233, -9>>, <<233, -9>>, <<234, -9>>, <<235, -9>>, <<236, -9>>
    >>,
    <<
     <<237, -9>>, <<238, -9>>, <<240, -9>>, <<241, -9>>, <<243, -9>>, <<244, -9>>, <<246, -9>>, <<247, -9>>,
     <<249, -9>>, <<251, -9>>, <<252, -9>>, <<254, -9>>, <<255, -9>>, <<128, -8>>, <<129, -8>>, <<130, -8>>,
     <<131, -8>>, <<131, -8>>, <<132, -8>>, <<133, -8>>, <<133, -8>>, <<134, -8>>, <<135, -8>>, <<136, -8>>,
     <<136, -8>>, <<137, -8>>, <<138, -8>>, <<138, -8>>, <<139, -8>>, <<140, -8>>, <<141, -8>>, <<141, -8>>,
     <<142, -8>>, <<143, -8>>, <<143, -8>>, <<144, -8>>, <<145, -8>>, <<145, -8>>, <<146, -8>>, <<147, -8>>,
     <<147, -8>>, <<148, -8>>, <<149, -8>>, <<149, -8>>, <<150, -8>>, <<151, -8>>, <<151, -8>>, <<152, -8>>,
     <<153, -8>>, <<153, -8>>, <<154, -8>>, <<155, -8>>, <<155, -8>>, <<156, -8>>, <<156, -8>>, <<157, -8>>,
     <<158, -8>>, <<158, -8>>, <<159, -8>>, <<160, -8>>, <<160, -8>>, <<161, -8>>, <<161, -8>>, <<162, -8>>,
     <<163, -8>>, <<163, -8>>, <<164, -8>>, <<164, -8>>, <<165, -8>>, <<166, -8>>, <<166, -8>>, <<167, -8>>,
     <<167, -8>>, <<168, -8>>, <<168, -8>>, <<169, -8>>, <<170, -8>>, <<170, -8>>, <<171, -8>>, <<171, -8>>,
     <<172, -8>>, <<172, -8>>, <<173, -8>>, <<173, -8>>, <<174, -8>>, <<174, -8>>, <<175, -8>>, <<176, -8>>,
     <<176, -8>>, <<177, -8>>, <<177, -8>>, <<178, -8>>, <<178, -8>>, <<179, -8>>, <<179, -8>>, <<180, -8>>,
     <<180, -8>>, <<181, -8>>, <<181, -8>>, <<182, -8>>, <<182, -8>>, <<183, -8>>, <<183, -8>>, <<184, -8>>,
     <<184, -8>>, <<185, -8>>, <<185, -8>>, <<186, -8>>, <<186, -8>>, <<187, -8>>, <<187, -8>>, <<187, -8>>,
     <<188, -8>>, <<188, -8>>, <<189, -8>>, <<189, -8>>, <<190, -8>>, <<190, -8>>, <<191, -8>>, <<191, -8>>,
     <<192, -8>>, <<192, -8>>, <<192, -8>>, <<193, -8>>, <<193, -8>>, <<194, -8>>, <<194, -8>>, <<195, -8>>
    >>,
    <<
     <<195, -8>>, <<196, -8>>, <<197, -8>>, <<197, -8>>, <<198, -8>>, <<199, -8>>, <<200, -8>>, <<201, -8>>,
     <<201, -8>>, <<202, -8>>, <<203, -8>>, <<204, -8>>, <<204, -8>>, <<205, -8>>, <<206, -8>>, <<206, -8>>,
     <<207, -8>>, <<208, -8>>, <<209, -8>>, <<209, -8>>, <<210, -8>>, <<211, -8>>, <<211, -8>>, <<212, -8>>,
     <<212, -8>>, <<213, -8>>, <<214, -8>>, <<214, -8>>, <<215, -8>>, <<215, -8>>, <<216, -8>>, <<217, -8>>,
     <<217, -8>>, <<218, -8>>, <<218, -8>>, <<219, -8>>, <<219, -8>>, <<220, -8>>, <<220, -8>>, <<221, -8>>,
     <<221, -8>>, <<222, -8>>, <<222, -8>>, <<223, -8>>, <<223, -8>>, <<224, -8>>, <<224, -8>>, <<225, -8>>,
     <<225, -8>>, <<226, -8>>, <<226, -8>>, <<227, -8>>, <<227, -8>>, <<227, -8>>, <<228, -8>>, <<228, -8>>,
     <<229, -8>>, <<229, -8>>, <<229, -8>>, <<230, -8>>, <<230, -8>>, <<231, -8>>, <<231, -8>>, <<231, -8>>,
     <<232, -8>>, <<232, -8>>, <<232, -8>>, <<233, -8>>, <<233, -8>>, <<233, -8>>, <<234, -8>>, <<234, -8>>,
     <<234, -8>>, <<235, -8>>, <<235, -8>>, <<235, -8>>, <<236, -8>>, <<236, -8>>, <<236, -8>>, <<237, -8>>,
     <<237, -8>>, <<237, -8>>, <<237, -8>>, <<238, -8>>, <<238, -8>>, <<238, -8>>, <<239, -8>>, <<239, -8>>,
     <<239, -8>>, <<239, -8>>, <<240, -8>>, <<240, -8>>, <<240, -8>>, <<240, -8>>, <<241, -8>>, <<241, -8>>,
     <<241, -8>>, <<241, -8>>, <<241, -8>>, <<242, -8>>, <<242, -8>>, <<242, -8>>, <<242, -8>>, <<243, -8>>,
     <<243, -8>>, <<243, -8>>, <<243, -8>>, <<243, -8>>, <<243, -8>>, <<244, -8>>, <<244, -8>>, <<244, -8>>,
     <<244, -8>>, <<244, -8>>, <<245, -8>>, <<245, -8>>, <<245, -8>>, <<245, -8>>, <<245, -8>>, <<245, -8>>,
     <<246, -8>>, <<246, -8>>, <<246, -8>>, <<246, -8>>, <<246, -8>>, <<246, -8>>, <<247, -8>>, <<247, -8>>
    >>,
    <<
     <<247, -8>>, <<247, -8>>, <<247, -8>>, <<248, -8>>, <<248, -8>>, <<248, -8>>, <<248, -8>>, <<249, -8>>,
     <<249, -8>>, <<249, -8>>, <<249, -8>>, <<249, -8>>, <<250, -8>>, <<250, -8>>, <<250, -8>>, <<250, -8>>,
     <<250, -8>>, <<251, -8>>, <<251, -8>>, <<251, -8>>, <<251, -8>>, <<251, -8>>, <<251, -8>>, <<251, -8>>,
     <<252, -8>>, <<252, -8>>, <<252, -8>>, <<252, -8>>, <<252, -8>>, <<252, -8>>, <<252, -8>>, <<252, -8>>,
     <<253, -8>>, <<253, -8>>, <<253, -8>>, <<253, -8>>, <<253, -8>>, <<253, -8>>, <<253, -8>>, <<253, -8>>,
     <<253, -8>>, <<253, -8>>, <<253, -8>>, <<254, -8>>, <<254, -8>>, <<254, -8>>, <<254, -8>>, <<254, -8>>,
     <<254, -8>>, <<254, -8>>, <<254, -8>>, <<254, -8>>, <<254, -8>>, <<254, -8>>, <<254, -8>>, <<254, -8>>,
     <<254, -8>>, <<254, -8>>, <<254, -8>>, <<255, -8>>, <<255, -8>>, <<255, -8>>, <<255, -8>>, <<255, -8>>,
     <<255, -8>>, <<255, -8>>, <<255, -8>>, <<255, -8>>, <<255, -8>>, <<255, -8>>, <<255, -8>>, <<255, -8>>,
     <<255, -8>>, <<255, -8>>, <<255, -8>>, <<255, -8>>, <<255, -8>>, <<255, -8>>, <<255, -8>>, <<255, -8>>,
     <<255, -8>>, <<255, -8>>, <<255, -8>>, <<255, -8>>, <<255, -8>>, <<255, -8>>, <<255, -8>>, <<255, -8>>,
     <<255, -8>>, <<255, -8>>, <<255, -8>>, <<255, -8>>, <<255, -8>>, <<255, -8>>, <<128, -7>>, <<128, -7>>,
     <<128, -7>>, <<128, -7>>, <<128, -7>>, <<128, -7>>, <<128, -7>>, <<128, -7>>, <<128, -7>>, <<128, -7>>,
     <<128, -7>>, <<128, -7>>, <<128, -7>>, <<128, -7>>, <<128, -7>>, <<128, -7>>, <<128, -7>>, <<128, -7>>,
     <<128, -7>>, <<128, -7>>, <<128, -7>>, <<128, -7>>, <<128, -7>>, <<128, -7>>, <<128, -7>>, <<128, -7>>,
     <<128, -7>>, <<128, -7>>, <<128, -7>>, <<128, -7>>, <<128, -7>>, <<128, -7>>, <<128, -7>>, <<128, -7>>
    >>
  >>

\* math.tanh(x): x itself below 2^-4, 1.0 from 4.0 on, the table between
FTanh(x) ==
  LET a == <<FAbsInt(x[1]), x[2]>>
      b == a[2] + MantissaBits - 1
      t == IF a[1] = 0 THEN FZero
           ELSE IF b < -4 THEN a
           ELSE IF b > 1 THEN FOne
           ELSE TanhTable[b + 5][a[1] - 127]
  IN IF x[1] < 0 THEN FNeg(t) ELSE t

\* the stored embedding components as floats
FloatOf(r) == FDiv(FInt(r[1]), FInt(r[2]))
RECURSIVE FloatsUpTo(_, _)
FloatsUpTo(v, n) ==
  IF n = 0 THEN <<>> ELSE Append(FloatsUpTo(v, n - 1), FloatOf(v[n]))
FloatVec(v) == FloatsUpTo(v, Len(v))
\* truthiness of an optional list
Truthy(opt) == opt # None /\ TheValue(opt) # <<>>

weights_meta ==
  [text_similarity |-> FLit(55, 100),
   attribute_overlap |-> FLit(22, 100),
   preference_weight |-> FLit(1, 10),
   positive_profile_similarity |-> FLit(18, 100),
   negative_profile_penalty |-> FLit(15, 100)]

\* garment.attributes as the set of <<family, value>> pairs
GarmentPairs(g) ==
  {attribute_value[garment_attributes[g][i]] : i \in 1..Len(garment_attributes[g])}

\* _load_user_preferences(user_id): attribute_value_id -> weight
load_user_preferences(prefs, user_id) ==
  IF user_id = "" THEN [id \in {} |-> FZero]
  ELSE [id \in {k[2] : k \in {p \in DOMAIN prefs : p[1] = user_id}} |->
          prefs[<<user_id, id>>]]

\* sum(weights) over the first n attributes of the garment
RECURSIVE SumWeights(_, _, _)
SumWeights(user_pref_weights, ids, n) ==
  IF n = 0 THEN FZero
  ELSE FAdd(SumWeights(user_pref_weights, ids, n - 1),
            IF ids[n] \in DOMAIN user_pref_weights
            THEN user_pref_weights[ids[n]] ELSE FZero)

\* math.tanh(raw_pref / 2.5), plus 0.05 when raw_pref > 0
PreferenceOf(raw_pref) ==
  IF FLess(FZero, raw_pref)
  THEN FAdd(FTanh(FDiv(raw_pref, FLit(5, 2))), FLit(5, 100))
  ELSE FTanh(FDiv(raw_pref, FLit(5, 2)))

\* pref_val of a garment
PreferenceValue(user_pref_weights, g) ==
  IF DOMAIN user_pref_weights = {} \/ garment_attributes[g] = <<>> THEN FZero
  ELSE PreferenceOf(FDiv(SumWeights(user_pref_weights, garment_attributes[g],
                                    Len(garment_attributes[g])),
                         FInt(Len(garment_attributes[g]))))

\* g.description_embedding as the list of floats the column holds
garment_vector ==
  [g \in GarmentIds |->
     IF Truthy(description_embedding[g])
     THEN FloatVec(TheValue(description_embedding[g])) ELSE <<>>]

\* neg_pen without the floor at 0
NegativePenalty_Unfloored(user_negative_emb, g) ==
  IF Truthy(user_negative_emb) /\ Truthy(description_embedding[g])
  THEN cos(FloatVec(TheValue(user_negative_emb)),
           garment_vector[g])
  ELSE FZero

\* neg_pen of a garment
NegativePenalty(user_negative_emb, g) ==
  IF Truthy(user_negative_emb) /\ Truthy(description_embedding[g])
  THEN FMax(FZero, cos(FloatVec(TheValue(user_negative_emb)),
                       garment_vector[g]))
  ELSE FZero

\* pos_sim of a garment
PositiveSimilarity(user_positive_emb, g) ==
  IF Truthy(user_positive_emb) /\ Truthy(description_embedding[g])
  THEN cos(FloatVec(TheValue(user_positive_emb)),
           garment_vector[g])
  ELSE FZero

\* components / contributions: the text_similarity key is set only inside
\* the branch that computes the text similarity
WithText(has_text, text, always) ==
  IF has_text THEN [text_similarity |-> text] @@ always ELSE always

\* score += contribution, in the order of the source
SumContributions(has_text, c) ==
  FAdd(FAdd(FAdd(FAdd(IF has_text THEN FAdd(FZero, c.text_similarity) ELSE FZero,
                      c.attribute_overlap),
                 c.preference_weight),
            c.positive_profile_similarity),
       c.negative_profile_penalty)

\* RankedGarment(garment_id, score, explanation)
RankedGarment(g, components, details, contributions, score) ==
  [garment_id |-> g,
   score |-> score,
   explanation |->
     [components |-> components,
      attribute_details |-> details,
      weights |-> weights_meta,
      contributions |-> contributions,
      final_score |-> score]]

Contributed(g, has_text, components, details, contributions) ==
  RankedGarment(g, components, details, contributions,
                SumContributions(has_text, contributions))

Explained(g, has_text, sim, overlap, pref_val, pos_sim, neg_pen) ==
  Contributed(g, has_text,
    WithText(has_text, sim,
      [attribute_overlap |-> overlap[1],
       preference_weight |-> pref_val,
       positive_profile_similarity |-> pos_sim,
       negative_profile_penalty |-> neg_pen]),
    overlap[2],
    WithText(has_text, FMul(sim, weights_meta.text_similarity),
      [attribute_overlap |-> FMul(overlap[1], weights_meta.attribute_overlap),
       preference_weight |-> FMul(pref_val, weights_meta.preference_weight),
       positive_profile_similarity |->
         FMul(pos_sim, weights_meta.positive_profile_similarity),
       negative_profile_penalty |->
         FMul(FNeg(neg_pen), weights_meta.negative_profile_penalty)]))

\* the body of the loop over garments: the RankedGarment of garment g.
\* parsed.text_embedding is an optional vector of floats.
ScoreGarment(parsed, g, user_pref_weights, user_positive_emb, user_negative_emb) ==
  Explained(g,
    Truthy(parsed.text_embedding) /\ Truthy(description_embedding[g]),
    cos(TheValue(parsed.text_embedding), garment_vector[g]),
    attribute_overlap_score(parsed.attributes, GarmentPairs(g)),
    PreferenceValue(user_pref_weights, g),
    PositiveSimilarity(user_positive_emb, g),
    NegativePenalty(user_negative_emb, g))

\* r goes in front of x also when their scores are equal
ComesBefore_OnTies(r, x) == FLeq(x.score, r.score)

\* list.sort(key=score, reverse=True) keeps the order of equal scores: a
\* later result r goes in front of x only when the score of x is below its own
ComesBefore(r, x) == FLess(x.score, r.score)

RECURSIVE InsertRanked(_, _)
InsertRanked(sorted, r) ==
  IF sorted = <<>> THEN <<r>>
  ELSE IF ComesBefore(r, Head(sorted)) THEN <<r>> \o sorted
  ELSE <<Head(sorted)>> \o InsertRanked(Tail(sorted), r)

RECURSIVE SortRanked(_, _)
SortRanked(results, n) ==
  IF n = 0 THEN <<>>
  ELSE InsertRanked(SortRanked(results, n - 1), results[n])

\* results[:limit]
Prefix(results, limit) ==
  LET n == Len(results)
      k == IF limit >= n THEN n
           ELSE IF limit >= 0 THEN limit
           ELSE IF n + limit > 0 THEN n + limit ELSE 0
  IN SubSeq(results, 1, k)

\* session.scalars(select(Garment)).all(): the candidates in enumeration order
Candidates == <<1, 2, 3, 4>>

\* results.sort(key=lambda r: r.score, reverse=True)
SortByScore(results) == SortRanked(results, Len(results))

\* the scoring, the sort and the cut of retrieve_and_rank
Rank(parsed, limit, user_pref_weights, user_positive_emb, user_negative_emb) ==
  Prefix(SortByScore([i \in 1..Len(Candidates) |->
                        ScoreGarment(parsed, Candidates[i], user_pref_weights,
                                     user_positive_emb, user_negative_emb)]),
         limit)

\* the inputs of the ranking: parsed queries, limits and user profiles
MaxLimit == 5
RankQueries ==
  {[raw |-> "", attributes |-> <<>>, text_embedding |-> None],
   [raw |-> "red dress",
    attributes |-> <<<<"color_primary", {"red"}>>>>,
    text_embedding |-> Some(<<FInt(1), FInt(0)>>)],
   [raw |-> "red vintage",
    attributes |-> <<<<"style", {"vintage", "boho"}>>, <<"color_primary", {"red"}>>>>,
    text_embedding |-> Some(<<>>)],
   [raw |-> "tee", attributes |-> <<>>,
    text_embedding |-> Some(<<FInt(1), FInt(1)>>)]}
RankPreferences ==
  {[id \in {} |-> FZero],
   [id \in {1} |-> FInt(1)],
   [id \in {1, 2} |-> IF id = 1 THEN FInt(-1) ELSE FLit(3, 10)]}
RankCentroids ==
  {None, Some(Vec(<<1, 0>>)), Some(Vec(<<-1, 1>>)), Some(<<Rat(0, 1), Rat(1, 2)>>)}

InitRank ==
  /\ ClassifierIdle /\ ClassifyCacheNew /\ QueryCacheNew /\ IngestNew
  /\ FeedbackNew /\ ThreadsIdle
  /\ fnCall \in {[name |-> "rank", parsed |-> q, limit |-> l, preferences |-> p,
                   positive |-> pos, negative |-> neg] :
                   q \in RankQueries, l \in 0..MaxLimit, p \in RankPreferences,
                   pos \in RankCentroids, neg \in RankCentroids}
  /\ fnResult = NotCalled
RankCall ==
  /\ fnCall.name = "rank"
  /\ ~fnResult.done
  /\ fnResult' = [done |-> TRUE,
                  results |-> Rank(fnCall.parsed, fnCall.limit, fnCall.preferences,
                                   fnCall.positive, fnCall.negative)]
  /\ UNCHANGED <<fnCall, classifyVars, classifyCacheVars, queryCacheVars, ingestVars, feedbackVars>>
NextRank == RankCall
SpecRank == InitRank /\ [][NextRank]_vars

\* ---- the handlers run one at a time ----

\* req.weight or 1.0
WeightOr1(weight) ==
  IF weight = None \/ TheValue(weight) = FZero THEN FOne ELSE TheValue(weight)

\* delta of an accepted action with weight w
Delta(action, w) ==
  IF action = "like" THEN w
  ELSE IF action = "dislike" THEN FMul(FNeg(FOne), w)
  ELSE IF action = "view" THEN FMul(FLit(1, 10), w)
  ELSE IF action = "click" THEN FMul(FLit(3, 10), w)
  ELSE FZero

\* the UserPreference rows after the loop over the first n attributes of
\* the garment: a new row with weight delta, or weight += delta
RECURSIVE AddDelta(_, _, _, _, _)
AddDelta(prefs, user_id, ids, n, delta) ==
  IF n = 0 THEN prefs
  ELSE LET before == AddDelta(prefs, user_id, ids, n - 1, delta)
           key == <<user_id, ids[n]>>
       IN [k \in DOMAIN before \cup {key} |->
             IF k # key THEN before[k]
             ELSE IF key \in DOMAIN before THEN FAdd(before[key], delta)
             ELSE delta]

UpdatePreferences(prefs, user_id, garment_id, delta) ==
  IF delta # FZero /\ garment_attributes[garment_id] # <<>>
  THEN AddDelta(prefs, user_id, garment_attributes[garment_id],
                Len(garment_attributes[garment_id]), delta)
  ELSE prefs

\* the garment lookup ahead of the action check
FeedbackStatus_GarmentFirst(act, garment_id) ==
  IF garment_id \notin GarmentIds THEN 404
  ELSE IF act \notin AcceptedActions THEN 400
  ELSE 200

\* the two validations of the handler, in the order it makes them: the
\* normalised action, then session.get(Garment, req.garment_id)
FeedbackStatus(act, garment_id) ==
  IF act \notin AcceptedActions THEN 400
  ELSE IF garment_id \notin GarmentIds THEN 404
  ELSE 200

\* POST /feedback: validate, append the InteractionEvent, update the
\* UserPreference rows, commit, drop both centroid cache entries of the user
feedback(user_id, garment_id, action, weight) ==
  LET act == Strip(Lower(action))
      status == FeedbackStatus(act, garment_id)
  IN /\ (status = 200 => Len(interaction_events) < MaxEvents)
     /\ IF status = 200
        THEN /\ interaction_events' =
                  Append(interaction_events,
                         [user_id |-> user_id, garment_id |-> garment_id,
                          event_type |-> act, weight_delta |-> WeightOr1(weight)])
             /\ user_preferences' =
                  UpdatePreferences(user_preferences, user_id, garment_id,
                                    Delta(act, WeightOr1(weight)))
             /\ user_embedding_cache' = InvalidateUser(user_embedding_cache, user_id)
        ELSE UNCHANGED <<interaction_events, user_preferences, user_embedding_cache>>
     /\ centroidLog' =
          [centroidLog EXCEPT
             !.fresh = IF status = 200 THEN @ \cup {user_id} ELSE @,
             !.accepted = IF status = 200
                          THEN Append(@, [action |-> act, weight |-> weight])
                          ELSE @,
             !.call = [kind |-> "feedback", user_id |-> user_id, status |-> status,
                       action |-> act, garment_id |-> garment_id]]
     /\ UNCHANGED <<threads, raceLog, classifyVars, classifyCacheVars,
                    queryCacheVars, ingestVars, pureVars>>

\* the score of garment g in a result list (every garment is in it when the
\* limit is not below the number of candidates)
ScoreIn(results, g) ==
  LET i == CHOOSE j \in 1..Len(results) : results[j].garment_id = g
  IN results[i].score

\* the negative_profile_penalty component of garment g in a result list
PenaltyIn(results, g) ==
  LET i == CHOOSE j \in 1..Len(results) : results[j].garment_id = g
  IN results[i].explanation.components.negative_profile_penalty

\* retrieve_and_rank(parsed, limit, user_id): load the preferences, the
\* positive and then the negative centroid, score, sort and cut
retrieve_and_rank(parsed, limit, user_id) ==
  \E prefs \in {load_user_preferences(user_preferences, user_id)},
     p \in {load_user_positive_embedding(user_embedding_cache,
                                          interaction_events, user_id)} :
  \E n \in {load_user_negative_embedding(p.cache, interaction_events, user_id)} :
  \E results \in {Rank(parsed, limit, prefs, p.emb, n.emb)} :
  \E scores \in {[g \in GarmentIds |-> ScoreIn(results, g)]} :
     /\ user_embedding_cache' = n.cache
     /\ centroidLog' =
          [fresh |-> centroidLog.fresh \ {user_id},
           accepted |-> centroidLog.accepted,
           last |-> [u \in DOMAIN centroidLog.last \cup {user_id} |->
                       IF u = user_id
                       THEN [events |-> Len(interaction_events),
                             parsed |-> parsed, limit |-> limit,
                             scores |-> scores]
                       ELSE centroidLog.last[u]],
           call |-> [kind |-> "search", user_id |-> user_id,
                     first_after_feedback |-> user_id \in centroidLog.fresh,
                     positive |-> p.emb, negative |-> n.emb,
                     parsed |-> parsed, limit |-> limit,
                     scores |-> scores,
                     penalty |-> [g \in GarmentIds |-> PenaltyIn(results, g)],
                     previous |-> IF user_id \in DOMAIN centroidLog.last
                                  THEN Some(centroidLog.last[user_id]) ELSE None]]
     /\ UNCHANGED <<interaction_events, user_preferences, threads, raceLog,
                    classifyVars, classifyCacheVars, queryCacheVars, ingestVars, pureVars>>

\* the searches of the model: the query and the default limit of search()
FeedbackQueries ==
  {[raw |-> "red dress",
    attributes |-> <<<<"color_primary", {"red"}>>>>,
    text_embedding |-> Some(<<FInt(1), FInt(0)>>)]}
DefaultLimit == 10

InitFeedback ==
  /\ ClassifierIdle /\ ClassifyCacheNew /\ QueryCacheNew /\ IngestNew
  /\ FeedbackNew /\ ThreadsIdle /\ PureIdle
RankedActions == {"like", "dislike", " Like"}

NextFeedback ==
  \/ \E user_id \in Users, garment_id \in GarmentIds, action \in RankedActions,
        weight \in RequestWeights :
       feedback(user_id, garment_id, action, weight)
  \/ \E parsed \in FeedbackQueries, user_id \in Users :
       retrieve_and_rank(parsed, DefaultLimit, user_id)
SpecFeedback == InitFeedback /\ [][NextFeedback]_vars

\* ---- the feedback ledger: every action and weight a request can carry ----

PreferenceActions == {"like", "dislike", "view", "click"}
PreferenceWeights == {None, Some(FZero), Some(FLit(1, 2))}

InitPreferences ==
  /\ ClassifierIdle /\ ClassifyCacheNew /\ QueryCacheNew /\ IngestNew
  /\ FeedbackNew /\ ThreadsIdle /\ PureIdle
NextPreferences ==
  \E user_id \in Users, garment_id \in GarmentIds, action \in PreferenceActions,
     weight \in PreferenceWeights :
    feedback(user_id, garment_id, action, weight)
SpecPreferences == InitPreferences /\ [][NextPreferences]_vars

\* ---- feedback requests, rejected ones included, and the centroid loads ----

\* a garment id that session.get(Garment, id) does not find
MissingGarment == 9
RequestGarments == {1, 2, MissingGarment}

\* a call of _load_user_positive_embedding(user_id)
LoadPositive(user_id) ==
  \E r \in {load_user_positive_embedding(user_embedding_cache, interaction_events,
                                          user_id)} :
    /\ user_embedding_cache' = r.cache
    /\ centroidLog' =
         [centroidLog EXCEPT
            !.call = [kind |-> "load", polarity |-> "positive",
                      user_id |-> user_id, emb |-> r.emb]]
    /\ UNCHANGED <<interaction_events, user_preferences, threads, raceLog,
                   classifyVars, classifyCacheVars, queryCacheVars, ingestVars, pureVars>>

\* a call of _load_user_negative_embedding(user_id)
LoadNegative(user_id) ==
  \E r \in {load_user_negative_embedding(user_embedding_cache, interaction_events,
                                          user_id)} :
    /\ user_embedding_cache' = r.cache
    /\ centroidLog' =
         [centroidLog EXCEPT
            !.call = [kind |-> "load", polarity |-> "negative",
                      user_id |-> user_id, emb |-> r.emb]]
    /\ UNCHANGED <<interaction_events, user_preferences, threads, raceLog,
                   classifyVars, classifyCacheVars, queryCacheVars, ingestVars, pureVars>>

InitLoads ==
  /\ ClassifierIdle /\ ClassifyCacheNew /\ QueryCacheNew /\ IngestNew
  /\ FeedbackNew /\ ThreadsIdle /\ PureIdle
NextLoads ==
  \/ \E user_id \in Users, garment_id \in RequestGarments,
        action \in RequestActions, weight \in ConcurrentWeights :
       feedback(user_id, garment_id, action, weight)
  \/ \E user_id \in Users : LoadPositive(user_id)
  \/ \E user_id \in Users : LoadNegative(user_id)
SpecLoads == InitLoads /\ [][NextLoads]_vars

\* ---- the handlers run on concurrent request threads ----
\* Each step is one access to the database or to _user_embedding_cache.

FeedbackThreads == {"f1"}
SearchThreads == {"s1", "s2"}

SetThread(t, rec) == threads' = [threads EXCEPT ![t] = rec]

\* the newest event of the user and polarity whose /feedback has returned
Need(user_id, types) ==
  LET idx == {i \in raceLog.returned :
                /\ interaction_events[i].user_id = user_id
                /\ interaction_events[i].event_type \in types}
  IN IF idx = {} THEN 0 ELSE CHOOSE i \in idx : \A j \in idx : j <= i

\* session.add(InteractionEvent(...)); session.commit()
FeedbackCommit(t, user_id, garment_id, action, weight) ==
  /\ threads[t].pc = "idle"
  /\ Len(interaction_events) < MaxEvents
  /\ Strip(Lower(action)) \in AcceptedActions
  /\ garment_id \in GarmentIds
  /\ interaction_events' =
       Append(interaction_events,
              [user_id |-> user_id, garment_id |-> garment_id,
               event_type |-> Strip(Lower(action)),
               weight_delta |-> WeightOr1(weight)])
  /\ user_preferences' =
       UpdatePreferences(user_preferences, user_id, garment_id,
                         Delta(Strip(Lower(action)), WeightOr1(weight)))
  /\ SetThread(t, [IdleThread EXCEPT !.pc = "del_pos", !.user_id = user_id,
                                     !.event = Len(interaction_events) + 1])
  /\ UNCHANGED <<user_embedding_cache, raceLog, centroidLog,
                 classifyVars, classifyCacheVars, queryCacheVars, ingestVars, pureVars>>

\* user_state.set_user_embedding(req.user_id, None)
FeedbackDelPos(t) ==
  LET key == PositiveKey(threads[t].user_id) IN
  /\ threads[t].pc = "del_pos"
  /\ user_embedding_cache' = set_user_embedding(user_embedding_cache, key, None)
  /\ raceLog' = [raceLog EXCEPT !.upto = [k \in DOMAIN @ \ {key} |-> @[k]]]
  /\ SetThread(t, [threads[t] EXCEPT !.pc = "del_neg"])
  /\ UNCHANGED <<interaction_events, user_preferences, centroidLog,
                 classifyVars, classifyCacheVars, queryCacheVars, ingestVars, pureVars>>

\* user_state.set_user_embedding(req.user_id + "__neg", None); return
FeedbackDelNeg(t) ==
  LET key == NegativeKey(threads[t].user_id) IN
  /\ threads[t].pc = "del_neg"
  /\ user_embedding_cache' = set_user_embedding(user_embedding_cache, key, None)
  /\ raceLog' = [upto |-> [k \in DOMAIN raceLog.upto \ {key} |-> raceLog.upto[k]],
                 returned |-> raceLog.returned \cup {threads[t].event}]
  /\ SetThread(t, IdleThread)
  /\ UNCHANGED <<interaction_events, user_preferences, centroidLog,
                 classifyVars, classifyCacheVars, queryCacheVars, ingestVars, pureVars>>

PolarityKey(polarity, user_id) ==
  IF polarity = "positive" THEN PositiveKey(user_id) ELSE NegativeKey(user_id)
PolarityTypes(polarity) ==
  IF polarity = "positive" THEN PositiveTypes ELSE NegativeTypes
\* where a search thread goes after the load of a polarity
AfterLoad(polarity) == IF polarity = "positive" THEN "get_negative" ELSE "idle"

\* cached = user_state.get_user_embedding(key); return it when present
LoadGet(t, rec, polarity) ==
  LET key == PolarityKey(polarity, rec.user_id)
      cached == get_user_embedding(user_embedding_cache, key)
      need == Need(rec.user_id, PolarityTypes(polarity))
  IN /\ SetThread(t,
          IF cached # None
          THEN [rec EXCEPT !.pc = AfterLoad(polarity),
                           ![polarity] = [done |-> TRUE, emb |-> cached,
                                          upto |-> raceLog.upto[key], need |-> need]]
          ELSE [rec EXCEPT !.pc = "read_" \o polarity,
                           ![polarity] = [done |-> FALSE, emb |-> None,
                                          upto |-> 0, need |-> need]])
     /\ UNCHANGED <<interaction_events, user_preferences, user_embedding_cache, raceLog, centroidLog,
                    classifyVars, classifyCacheVars, queryCacheVars, ingestVars, pureVars>>

\* _load_user_positive_embedding starts: the search request begins here
GetPositive(t, user_id) ==
  /\ threads[t].pc = "idle"
  /\ LoadGet(t, [IdleThread EXCEPT !.user_id = user_id], "positive")

GetNegative(t) ==
  /\ threads[t].pc = "get_negative"
  /\ LoadGet(t, threads[t], "negative")

\* the events query and combine_embeddings
LoadRead(t, polarity) ==
  /\ threads[t].pc = "read_" \o polarity
  /\ SetThread(t, [threads[t] EXCEPT
                     !.pc = "set_" \o polarity,
                     !.emb = combine_embeddings(
                               EventVectors(interaction_events, threads[t].user_id,
                                            PolarityTypes(polarity))),
                     !.upto = Len(interaction_events)])
  /\ UNCHANGED <<interaction_events, user_preferences, user_embedding_cache, raceLog, centroidLog,
                 classifyVars, classifyCacheVars, queryCacheVars, ingestVars, pureVars>>

\* user_state.set_user_embedding(key, emb); return emb
LoadSet(t, polarity) ==
  LET rec == threads[t]
      key == PolarityKey(polarity, rec.user_id)
      after == set_user_embedding(user_embedding_cache, key, rec.emb)
  IN /\ rec.pc = "set_" \o polarity
     /\ user_embedding_cache' = after
     /\ raceLog' = [raceLog EXCEPT !.upto =
                      [k \in DOMAIN after |-> IF k = key THEN rec.upto ELSE @[k]]]
     /\ SetThread(t, [rec EXCEPT !.pc = AfterLoad(polarity),
                                 !.emb = None, !.upto = 0,
                                 ![polarity] = [done |-> TRUE, emb |-> rec.emb,
                                                upto |-> rec.upto,
                                                need |-> rec[polarity].need]])
     /\ UNCHANGED <<interaction_events, user_preferences, centroidLog,
                    classifyVars, classifyCacheVars, queryCacheVars, ingestVars, pureVars>>

InitConcurrent ==
  /\ ClassifierIdle /\ ClassifyCacheNew /\ QueryCacheNew /\ IngestNew
  /\ FeedbackNew /\ ThreadsIdle /\ PureIdle
NextConcurrent ==
  \/ \E t \in FeedbackThreads, user_id \in ConcurrentUsers,
        garment_id \in GarmentIds, action \in RequestActions,
        weight \in ConcurrentWeights :
       FeedbackCommit(t, user_id, garment_id, action, weight)
  \/ \E t \in FeedbackThreads : FeedbackDelPos(t)
  \/ \E t \in FeedbackThreads : FeedbackDelNeg(t)
  \/ \E t \in SearchThreads, user_id \in ConcurrentUsers : GetPositive(t, user_id)
  \/ \E t \in SearchThreads : LoadRead(t, "positive")
  \/ \E t \in SearchThreads : LoadSet(t, "positive")
  \/ \E t \in SearchThreads : GetNegative(t)
  \/ \E t \in SearchThreads : LoadRead(t, "negative")
  \/ \E t \in SearchThreads : LoadSet(t, "negative")
SpecConcurrent == InitConcurrent /\ [][NextConcurrent]_vars

-----------------------------------------------------------------------------
(* POST /search (api/search.py): the off-topic gate in front of            *)
(* query_pipeline.search                                                   *)

\* end of the run of non-whitespace characters that starts at i
RECURSIVE WordEnd(_, _)
WordEnd(s, i) ==
  IF i + 1 <= Len(s) /\ Char(s, i + 1) \notin WhitespaceSet
  THEN WordEnd(s, i + 1) ELSE i
\* str.split()
RECURSIVE SplitFrom(_, _)
SplitFrom(s, i) ==
  IF i > Len(s) THEN <<>>
  ELSE IF Char(s, i) \in WhitespaceSet THEN SplitFrom(s, i + 1)
  ELSE <<SubSeq(s, i, WordEnd(s, i))>> \o SplitFrom(s, WordEnd(s, i) + 1)
Split(s) == SplitFrom(s, 1)
\* s.replace("/", " ")
RECURSIVE SlashesToSpaces(_, _)
SlashesToSpaces(s, i) ==
  IF i > Len(s) THEN ""
  ELSE (IF Char(s, i) = "/" THEN " " ELSE Char(s, i)) \o SlashesToSpaces(s, i + 1)
\* re.findall(r"[a-zA-Z]+", s)
RECURSIVE LetterRunsFrom(_, _)
LetterRunsFrom(s, i) ==
  IF i > Len(s) THEN <<>>
  ELSE IF Char(s, i) \notin AlphaSet THEN LetterRunsFrom(s, i + 1)
  ELSE <<SubSeq(s, i, RunEnd(s, i, AlphaSet))>>
         \o LetterRunsFrom(s, RunEnd(s, i, AlphaSet) + 1)
LetterRuns(s) == LetterRunsFrom(s, 1)
Elements(seq) == {seq[i] : i \in 1..Len(seq)}

\* _is_ambiguous(q)
AmbiguousTokens(tokens) ==
  \/ /\ Len(tokens) <= 2
     /\ Elements(tokens) \subseteq
          {"shirt", "pants", "dress", "jacket", "top", "red", "blue", "black", "shoes"}
  \/ /\ Cardinality(Elements(tokens)
                      \cap {"shirt", "pants", "dress", "skirt", "jacket", "jeans",
                            "shoes", "tee", "tshirt"}) > 1
     /\ Len(tokens) <= 4
is_ambiguous(q) ==
  \/ Lower(Strip(q)) = ""
  \/ Len(Lower(Strip(q))) < 3
  \/ AmbiguousTokens(Split(SlashesToSpaces(Lower(Strip(q)), 1)))

\* _FASHION_VOCAB: the family names and values of ONTOLOGY and twelve more words
FASHION_VOCAB ==
  Families \cup UNION {ONTOLOGY[fam] : fam \in Families}
    \cup {"vintage", "retro", "denim", "suede", "leather", "silk", "cotton",
          "linen", "wool", "outfit", "garment", "clothing"}
OFF_TOPIC_MARKERS ==
  {"bitcoin", "ethereum", "docker", "kubernetes", "recipe", "weather", "forecast",
   "football", "soccer", "stocks", "price", "currency", "python", "javascript",
   "movie", "music", "lyrics"}

\* the verdict of _is_off_topic on the tokens of a non-empty norm
OffTopicTokens(tokens) ==
  IF tokens = <<>> THEN [off_topic |-> TRUE, reason |-> "no alpha tokens"]
  ELSE IF Elements(tokens) \cap OFF_TOPIC_MARKERS # {}
          /\ Elements(tokens) \cap FASHION_VOCAB = {}
  THEN [off_topic |-> TRUE, reason |-> "contains off-topic tokens"]
  ELSE IF Elements(tokens) \cap FASHION_VOCAB # {}
  THEN [off_topic |-> FALSE, reason |-> "fashion tokens present"]
  ELSE IF Len(tokens) >= 3
  THEN [off_topic |-> TRUE, reason |-> "no fashion tokens in multi-word query"]
  ELSE [off_topic |-> FALSE, reason |-> "short generic allowed"]
\* _is_off_topic(q)
is_off_topic(q) ==
  IF Strip(Lower(q)) = "" THEN [off_topic |-> TRUE, reason |-> "empty query"]
  ELSE OffTopicTokens(LetterRuns(Strip(Lower(q))))

\* the embedding vector of the query as floats
RECURSIVE IntsToFloats(_, _)
IntsToFloats(v, n) ==
  IF n = 0 THEN <<>> ELSE Append(IntsToFloats(v, n - 1), FInt(v[n]))
\* the ParsedQuery parse_query returned, the extractor finding no families
ParsedOf(call) ==
  [raw |-> call.raw,
   attributes |-> <<>>,
   text_embedding |->
     IF call.text_embedding = None THEN None
     ELSE Some(IntsToFloats(TheValue(call.text_embedding),
                            Len(TheValue(call.text_embedding))))]
RECURSIVE GarmentIdsOf(_, _)
GarmentIdsOf(results, n) ==
  IF n = 0 THEN <<>> ELSE Append(GarmentIdsOf(results, n - 1), results[n].garment_id)
\* query_pipeline.search for a request without user_id: the garment ids of
\* the ranked results
IdsOf(results) == GarmentIdsOf(results, Len(results))
PipelineResults(call, limit) ==
  IdsOf(Rank(ParsedOf(call), limit, [id \in {} |-> FZero], None, None))
\* req.limit or 10
LimitOr10(limit) ==
  IF limit = None \/ TheValue(limit) = 0 THEN DefaultLimit ELSE TheValue(limit)

\* the response of the handler once the pipeline has run and logged `call`
PipelineResponse(query, limit, force, call) ==
  IF call.kind = "raised"
  THEN [kind |-> "response", query |-> query, forced |-> force = Some(TRUE), status |-> 500,
        pipeline |-> TRUE]
  ELSE [kind |-> "response", query |-> query, forced |-> force = Some(TRUE), status |-> 200,
        pipeline |-> TRUE,
        off_topic |-> FALSE,
        ambiguous |-> is_ambiguous(query),
        results |-> PipelineResults(call, LimitOr10(limit))]

\* POST /search without user_id
search(query, limit, force, extractor_ok, service_ok) ==
  /\ IF Strip(query) = ""
     THEN /\ search_response' =
               [kind |-> "response", query |-> query, forced |-> force = Some(TRUE),
                status |-> 400, pipeline |-> FALSE]
          /\ UNCHANGED <<query_embedding_cache, queryLog>>
     ELSE IF force \in {None, Some(FALSE)} /\ is_off_topic(query).off_topic
     THEN /\ search_response' =
               [kind |-> "response", query |-> query, forced |-> force = Some(TRUE),
                status |-> 200, pipeline |-> FALSE,
                off_topic |-> TRUE, ambiguous |-> FALSE, results |-> <<>>,
                off_topic_reason |-> is_off_topic(query).reason]
          /\ UNCHANGED <<query_embedding_cache, queryLog>>
     ELSE /\ ParseQueryEffect(query, extractor_ok, service_ok)
          /\ \E call \in {queryLog'.call} :
               search_response' = PipelineResponse(query, limit, force, call)
  /\ UNCHANGED <<ingestVars, classifyVars, classifyCacheVars, feedbackVars, pureVars>>

\* the requests of the model, made while the embedding service answers: queries with off-topic markers, with fashion
\* words, with both, with vocabulary entries that carry a digit or a hyphen,
\* without letters, and a blank one
SearchQueries ==
  {"bitcoin price", "red dress", "Dress price", "y2k music", "a b c", "42", "   "}
SearchLimits == {None, Some(1)}
SearchForce == {None, Some(FALSE), Some(TRUE)}

InitSearch ==
  /\ ClassifierIdle /\ ClassifyCacheNew /\ QueryCacheNew /\ IngestNew
  /\ FeedbackNew /\ ThreadsIdle /\ PureIdle
NextSearch ==
  \E query \in SearchQueries, limit \in SearchLimits, force \in SearchForce,
     extractor_ok \in BOOLEAN :
    search(query, limit, force, extractor_ok, TRUE)
SpecSearch == InitSearch /\ [][NextSearch]_vars
-----------------------------------------------------------------------------
(* POST /garments/ingest (api/ingest.py) and ingest_garment (ingest.py)    *)

\* base64.b64decode(s, validate=True) of the request images of the model;
\* None is the decoder raising
b64decode(s) ==
  IF s = "QQ==" THEN Some("A") ELSE IF s = "Qg==" THEN Some("B") ELSE None
\* hashlib.sha1(external_id.encode()).hexdigest()[:10] of the external ids
\* of the model
Sha1Prefix(external_id) ==
  IF external_id = "g1" THEN "7a9e1f2c3d" ELSE IF external_id = "g2" THEN "0b4c8d5e6f"
  ELSE "da39a3ee5e"
\* Path(storage_dir) / f"{digest}.img"
ImagePathOf(external_id) == "data/images/" \o Sha1Prefix(external_id) \o ".img"
\* image_to_feature(path): the embedding of the bytes stored at path
image_to_feature(bytes) == IF bytes = "A" THEN <<1, 0>> ELSE <<0, 1>>

\* the GarmentAttribute rows added for the first n values of one family
RECURSIVE FamilyRows(_, _, _)
FamilyRows(family, vals, n) ==
  IF n = 0 THEN <<>>
  ELSE IF normalize(family, vals[n]) = None THEN FamilyRows(family, vals, n - 1)
  ELSE Append(FamilyRows(family, vals, n - 1),
              [family |-> family, value |-> TheValue(normalize(family, vals[n])),
               confidence |-> 1])
\* the GarmentAttribute rows added for the first n families of raw_attributes;
\* the AttributeValue row of a (family, value) pair is created once
RECURSIVE AttributeRows(_, _)
AttributeRows(raw_attributes, n) ==
  IF n = 0 THEN <<>>
  ELSE AttributeRows(raw_attributes, n - 1)
         \o FamilyRows(raw_attributes[n][1], raw_attributes[n][2],
                       Len(raw_attributes[n][2]))

\* select(Garment).where(Garment.external_id == external_id): positions of
\* the matching rows
RowsOf(rows, external_id) == {i \in 1..Len(rows) : rows[i].external_id = external_id}

\* the Garment row a new external_id gets
NewGarment(rows, req, image_path, embedding) ==
  [id |-> Len(rows) + 1,
   external_id |-> req.external_id,
   title |-> req.title, brand |-> req.brand, price |-> req.price,
   currency |-> req.currency,
   image_path |-> image_path,
   image_embedding |-> embedding,
   attributes |-> IF req.attributes = None THEN <<>>
                  ELSE AttributeRows(TheValue(req.attributes),
                                     Len(TheValue(req.attributes)))]

\* a repeated external_id rewrites the row it finds
ingest_garment_Upsert(rows, req, image_path, embedding) ==
  IF RowsOf(rows, req.external_id) # {}
  THEN [rows |-> [i \in 1..Len(rows) |->
                    IF i \in RowsOf(rows, req.external_id)
                    THEN [NewGarment(rows, req, image_path, embedding)
                            EXCEPT !.id = rows[i].id]
                    ELSE rows[i]],
        id |-> rows[CHOOSE i \in RowsOf(rows, req.external_id) : TRUE].id]
  ELSE [rows |-> Append(rows, NewGarment(rows, req, image_path, embedding)),
        id |-> Len(rows) + 1]

\* ingest_garment(external_id, image_path, raw_attributes, title, brand,
\* price, currency): the garment table afterwards and the returned id
ingest_garment(rows, req, image_path, embedding) ==
  IF RowsOf(rows, req.external_id) # {}
  THEN [rows |-> rows,
        id |-> rows[CHOOSE i \in RowsOf(rows, req.external_id) :
                      \A j \in RowsOf(rows, req.external_id) : i <= j].id]
  ELSE [rows |-> Append(rows, NewGarment(rows, req, image_path, embedding)),
        id |-> Len(rows) + 1]

\* POST /garments/ingest
garments_ingest(req) ==
  /\ IF req.image_base64 = "" \/ b64decode(req.image_base64) = None
     THEN /\ ingest_response' =
               [kind |-> "response", status |-> 400,
                external_id |-> req.external_id, title |-> req.title]
          /\ UNCHANGED <<garments, image_store>>
     ELSE \E bytes \in b64decode(req.image_base64) :
          \E r \in {ingest_garment(garments, req, ImagePathOf(req.external_id),
                                   image_to_feature(bytes))} :
            /\ image_store' =
                 [path \in DOMAIN image_store \cup {ImagePathOf(req.external_id)} |->
                    IF path = ImagePathOf(req.external_id) THEN bytes
                    ELSE image_store[path]]
            /\ garments' = r.rows
            /\ ingest_response' =
                 [kind |-> "response", status |-> 200,
                  garment_id |-> r.id,
                  external_id |-> req.external_id, title |-> req.title]
  /\ UNCHANGED <<classifyVars, classifyCacheVars, queryCacheVars, feedbackVars,
                 pureVars>>

\* the requests of the model
ExternalIds == {"g1", "g2"}
IngestImages == {"", "%%", "QQ==", "Qg=="}
IngestFields ==
  {[title |-> None, brand |-> None, price |-> None],
   [title |-> Some("Tee"), brand |-> Some("Acme"), price |-> Some(10)],
   [title |-> Some("Coat"), brand |-> Some("Zed"), price |-> Some(25)]}
IngestAttributes ==
  {None,
   Some(<<<<"color_primary", <<"Red", "zzz">>>>>>),
   Some(<<<<"category", <<"tee">>>>, <<"material", <<"denim">>>>>>)}
IngestRequests ==
  {[external_id |-> e, image_base64 |-> img, attributes |-> a,
    title |-> f.title, brand |-> f.brand, price |-> f.price, currency |-> None] :
     e \in ExternalIds, img \in IngestImages, a \in IngestAttributes,
     f \in IngestFields}

InitIngest ==
  /\ ClassifierIdle /\ ClassifyCacheNew /\ QueryCacheNew /\ IngestNew
  /\ FeedbackNew /\ ThreadsIdle /\ PureIdle
NextIngest == \E req \in IngestRequests : garments_ingest(req)
SpecIngest == InitIngest /\ [][NextIngest]_vars
-----------------------------------------------------------------------------
(* Request threads calling cache_query_embedding at the same time          *)
(* (user_state.py): each dictionary operation of _LRU.get_or_set is one    *)
(* step, and threads may be switched between any two of them               *)

LruThreads == {"r1", "r2"}
\* two spellings of one key, two more keys, and a blank text
LruTexts == {"red dress", "Red Dress", "tan", "navy", "   "}

LruIdle == [pc |-> "idle", text |-> "", key |-> "", val |-> None, outcome |-> "none"]

\* OrderedDict.__setitem__: a present key keeps its place
SetItem(od, key, val) ==
  IF key \in KeysOf(od)
  THEN [i \in 1..Len(od) |-> IF od[i][1] = key THEN <<key, val>> ELSE od[i]]
  ELSE Append(od, <<key, val>>)

\* the thread moves to the given position with the given locals
LruGoto(t, position, text, key, val, outcome) ==
  threads' = [threads EXCEPT ![t] =
                [pc |-> position, text |-> text, key |-> key, val |-> val,
                 outcome |-> outcome]]
LruRest ==
  UNCHANGED <<user_embedding_cache, interaction_events, user_preferences,
              centroidLog, queryLog, search_response, ingestVars, classifyVars,
              classifyCacheVars, pureVars>>

\* cache_query_embedding(text, embed_fn): text_norm, the blank test, and
\* the entry into get_or_set
LruCall(t, text) ==
  /\ threads[t].pc = "idle"
  /\ IF Lower(Strip(text)) = ""
     THEN LruGoto(t, "idle", text, "", None, "returned")
     ELSE LruGoto(t, "contains", text, Lower(Strip(text)), None, "running")
  /\ UNCHANGED <<query_embedding_cache, raceLog>>
  /\ LruRest

\* if key in self
LruContains(t) ==
  /\ threads[t].pc = "contains"
  /\ LruGoto(t, IF threads[t].key \in KeysOf(query_embedding_cache)
                THEN "pop" ELSE "factory",
             threads[t].text, threads[t].key, None, "running")
  /\ UNCHANGED <<query_embedding_cache, raceLog>>
  /\ LruRest

\* val = self.pop(key): KeyError when the key is no longer there
LruPop(t) ==
  /\ threads[t].pc = "pop"
  /\ IF threads[t].key \in KeysOf(query_embedding_cache)
     THEN /\ query_embedding_cache' = Without(query_embedding_cache, threads[t].key)
          /\ LruGoto(t, "reinsert", threads[t].text, threads[t].key,
                     Some(ValueOf(query_embedding_cache, threads[t].key)), "running")
     ELSE /\ UNCHANGED query_embedding_cache
          /\ LruGoto(t, "idle", threads[t].text, threads[t].key, None, "raised")
  /\ UNCHANGED raceLog
  /\ LruRest

\* self[key] = val; return val
LruReinsert(t) ==
  /\ threads[t].pc = "reinsert"
  /\ query_embedding_cache' =
       SetItem(query_embedding_cache, threads[t].key, TheValue(threads[t].val))
  /\ LruGoto(t, "idle", threads[t].text, threads[t].key, threads[t].val, "returned")
  /\ UNCHANGED raceLog
  /\ LruRest

\* val = factory(): embed_fn(text)
LruFactory(t) ==
  /\ threads[t].pc = "factory"
  /\ LruGoto(t, "store", threads[t].text, threads[t].key,
             Some(embed_text(threads[t].text, TRUE)), "running")
  /\ raceLog' = [produced |-> raceLog.produced
                                \cup {<<threads[t].key, embed_text(threads[t].text, TRUE)>>}]
  /\ UNCHANGED query_embedding_cache
  /\ LruRest

\* self[key] = val
LruStore(t) ==
  /\ threads[t].pc = "store"
  /\ query_embedding_cache' =
       SetItem(query_embedding_cache, threads[t].key, TheValue(threads[t].val))
  /\ LruGoto(t, "len", threads[t].text, threads[t].key, threads[t].val, "running")
  /\ UNCHANGED raceLog
  /\ LruRest

\* if len(self) > self.maxsize; otherwise return val
LruLen(t) ==
  /\ threads[t].pc = "len"
  /\ IF Len(query_embedding_cache) > MAX_QUERY_CACHE
     THEN LruGoto(t, "popitem", threads[t].text, threads[t].key, threads[t].val,
                  "running")
     ELSE LruGoto(t, "idle", threads[t].text, threads[t].key, threads[t].val,
                  "returned")
  /\ UNCHANGED <<query_embedding_cache, raceLog>>
  /\ LruRest

\* self.popitem(last=False); return val.  KeyError on an empty dictionary
LruPopItem(t) ==
  /\ threads[t].pc = "popitem"
  /\ IF query_embedding_cache # <<>>
     THEN /\ query_embedding_cache' = Tail(query_embedding_cache)
          /\ LruGoto(t, "idle", threads[t].text, threads[t].key, threads[t].val,
                     "returned")
     ELSE /\ UNCHANGED query_embedding_cache
          /\ LruGoto(t, "idle", threads[t].text, threads[t].key, None, "raised")
  /\ UNCHANGED raceLog
  /\ LruRest

InitLru ==
  /\ ClassifierIdle /\ ClassifyCacheNew /\ QueryCacheNew /\ IngestNew /\ PureIdle
  /\ user_embedding_cache = [k \in {} |-> <<>>]
  /\ interaction_events = <<>>
  /\ user_preferences = [k \in {} |-> <<0, 0>>]
  /\ centroidLog = [fresh |-> {}, accepted |-> <<>>, last |-> [u \in {} |-> {}],
                    call |-> [kind |-> "none"]]
  /\ raceLog = [produced |-> {}]
  /\ threads = [t \in LruThreads |-> LruIdle]
NextLru ==
  \E t \in LruThreads :
    \/ \E text \in LruTexts : LruCall(t, text)
    \/ LruContains(t)
    \/ LruPop(t)
    \/ LruReinsert(t)
    \/ LruFactory(t)
    \/ LruStore(t)
    \/ LruLen(t)
    \/ LruPopItem(t)
SpecLru == InitLru /\ [][NextLru]_vars
-----------------------------------------------------------------------------
(* Properties                                                              *)

\* C1: when the handlers run one at a time, the first centroid load of a
\* user after a /feedback of that user returns the component-wise mean of
\* the description embeddings of the user's like/click events (positive) and
\* of the user's dislike events (negative), the new event included; a first
\* like of a garment with embedding e makes the positive centroid e.
C1_Relevant(user_id, types) ==
  {i \in 1..Len(interaction_events) :
     /\ interaction_events[i].user_id = user_id
     /\ interaction_events[i].event_type \in types
     /\ description_embedding[interaction_events[i].garment_id] # None}
C1_Embedding(i) == TheValue(description_embedding[interaction_events[i].garment_id])
\* v is the mean of the embeddings of the events idx: n * v = their sum
RECURSIVE C1_Sum(_, _)
C1_Sum(idx, d) ==
  IF idx = {} THEN Rat(0, 1)
  ELSE LET i == CHOOSE j \in idx : TRUE
       IN RatAdd(C1_Embedding(i)[d], C1_Sum(idx \ {i}, d))
C1_IsMean(centroid, idx) ==
  IF idx = {} THEN centroid = None
  ELSE /\ centroid # None
       /\ Len(TheValue(centroid)) = 2
       /\ \A d \in 1..2 :
            LET c == TheValue(centroid)[d]
            IN Rat(c[1] * Cardinality(idx), c[2]) = C1_Sum(idx, d)
C1_FreshCentroid ==
  LET c == centroidLog.call IN
  (c.kind = "search" /\ c.first_after_feedback) =>
    /\ C1_IsMean(c.positive, C1_Relevant(c.user_id, {"like", "click"}))
    /\ C1_IsMean(c.negative, C1_Relevant(c.user_id, {"dislike"}))

\* C2: under every interleaving of /feedback steps with concurrent searches
\* of the same user, a centroid load that starts after a /feedback request
\* has returned never observes a centroid computed without that request's
\* event.
C2_NoStaleCentroid ==
  \A t \in SearchThreads :
    /\ threads[t].positive.done => threads[t].positive.upto >= threads[t].positive.need
    /\ threads[t].negative.done => threads[t].negative.upto >= threads[t].negative.need

C4_SizeBound == classify_cache_stats.size <= CLASSIFY_CACHE_LIMIT

\* C5: a query whose trimmed, lower-cased text is not a key of the cache
\* costs exactly one embedding call and its result is stored under that key;
\* a query whose key is present costs none and gets the stored value; no
\* call makes more than one embedding call or more than one extraction call.
C5_HitMissContract ==
  LET c == queryLog.call IN
  /\ c.kind # "none" => c.embed_calls <= 1 /\ c.extract_calls <= 1
  /\ c.kind = "parsed" =>
       IF c.present
       THEN /\ c.embed_calls = 0
            /\ c.text_embedding = c.stored
       ELSE /\ c.embed_calls = 1
            /\ c.text_embedding = Some(c.produced)
            /\ c.key \in KeysOf(query_embedding_cache)
            /\ ValueOf(query_embedding_cache, c.key) = c.produced
C5_Witness ==
  /\ queryLog.call.kind = "parsed"
  /\ queryLog.call.present
  /\ queryLog.call.text = " Red Dress "
  /\ queryLog.call.embed_calls = 0
  /\ queryLog.call.text_embedding = Some(EmbeddingOf("red dress"))

\* C6: between a clear_classify_cache and the first overflow clear, misses
\* is the number of distinct trimmed, lower-cased descriptions seen, hits is
\* the number of calls minus misses, size equals misses, and hit_rate is
\* exactly hits / (hits + misses) (0 when there were no calls).
C6_Counts ==
  LET s == classify_cache_stats IN
  /\ s.misses = Cardinality(classifyLog.seen)
  /\ s.hits = classifyLog.calls - s.misses
  /\ s.size = s.misses
  /\ (s.hits + s.misses = 0) => s.hit_rate = 0
C7_Order ==
  <<"dress", "jacket", "shoes", "skirt", "pants", "shirt", "accessories",
    "outerwear", "tops", "bottoms", "activewear", "undergarments", "swimwear">>
C7_Winner(matched) ==
  C7_Order[SetMin({i \in 1..Len(C7_Order) : C7_Order[i] \in matched})]
C7_CategorySingularity ==
  pc = "classified" =>
    LET matched == MatchesBeforeSelection(desc)["category"]
        category == AttrGet(attrs, "category")
    IN /\ Len(category) <= 1
       /\ Cardinality(matched) > 1 => category = <<C7_Winner(matched)>>
C7_Witness ==
  /\ pc = "classified"
  /\ {"jacket", "shirt"} \subseteq MatchesBeforeSelection(desc)["category"]
  /\ attrs["category"] = <<"jacket">>

\* C8: classifying "A vintage graphic band tee in soft cream cotton with
\* relaxed fit" gives category ["shirt"], a pattern list containing
\* "graphic", a style list containing "vintage" and a color_primary list
\* containing "beige".
C8_Description ==
  "A vintage graphic band tee in soft cream cotton with relaxed fit"
C8_Scenario ==
  (pc = "classified" /\ desc = C8_Description) =>
    /\ AttrGet(attrs, "category") = <<"shirt">>
    /\ "graphic" \in SeqToSet(AttrGet(attrs, "pattern"))
    /\ "vintage" \in SeqToSet(AttrGet(attrs, "style"))
    /\ "beige" \in SeqToSet(AttrGet(attrs, "color_primary"))

\* C9: every (family, value) of attrs gets the confidence
\* min(0.95, 0.55 + 0.20*[first token occurrence index < 30]
\*                 + 0.10*[more than one token occurrence]
\*                 + 0.05*[family in {pattern, style, color_primary}])
\* rounded to 3 decimals, so every confidence lies in [0.55, 0.95].
C9_Expected(description, fam, v) ==
  LET toks == AlphaTokenize(Lower(description))
      at == {i \in 1..Len(toks) : toks[i] = v}
      early == \E i \in at : i - 1 < 30 /\ \A j \in at : i <= j
      sum == 5500 + (IF early THEN 2000 ELSE 0)
                  + (IF Cardinality(at) > 1 THEN 1000 ELSE 0)
                  + (IF fam \in {"pattern", "style", "color_primary"} THEN 500 ELSE 0)
  IN IF sum < 9500 THEN sum ELSE 9500
C9_ConfidenceScoring ==
  pc = "scored" =>
    /\ DOMAIN conf = AttrPairs(attrs)
    /\ \A k \in DOMAIN conf :
         /\ conf[k] = C9_Expected(desc, k[1], k[2])
         /\ conf[k] % 10 = 0
         /\ 5500 <= conf[k] /\ conf[k] <= 9500
C9_Witness ==
  /\ pc = "scored"
  /\ <<"color_primary", "red">> \in DOMAIN conf
  /\ conf[<<"color_primary", "red">>] = 7000
  /\ Occurrences(AlphaTokenize(Lower(desc)), "red") = {30, 32}

\* C10: every classify_basic_cached(d) call, whatever hits, misses,
\* overflow clears and explicit clears came before it, returns
\* classify_basic(d).
C10_CacheTransparent ==
  pc = "returned" => attrs = classify_basic(desc)
C10_Witness ==
  /\ pc = "returned"
  /\ desc = "  a FLORAL dress "
  /\ classifyLog.overflowed
  /\ CLASSIFY_HITS = 1
  /\ attrs = [category |-> <<"dress">>, pattern |-> <<"floral">>]

\* C20: _cos(a, b) = _cos(b, a); _cos(a, a) = 1.0 for every non-zero a; the
\* result is 0 when a vector is empty or has zero norm; vectors of different
\* lengths give the cosine of both truncated to the shorter length.
C20_IsZero(v) == \A i \in 1..Len(v) : v[i] = FZero
C20_OtherLaws ==
  fnCall.name = "cos" /\ fnResult.done =>
    /\ fnResult.ab = fnResult.ba
    /\ (fnCall.a = <<>> \/ fnCall.b = <<>>) => fnResult.ab = FZero
    /\ (C20_IsZero(fnCall.a) \/ C20_IsZero(fnCall.b)) => fnResult.ab = FZero
    /\ fnResult.ab = fnResult.truncated
C20_CosLaws ==
  /\ C20_OtherLaws
  /\ fnCall.name = "cos" /\ fnResult.done /\ ~C20_IsZero(fnCall.a) =>
       fnResult.aa = FOne
\* C20 as the code has it: _cos(a, a) is 1.0 up to the rounding of the
\* three operations after the sums, four units of round-off at most
C20_RoundOff == FRound(1, 2 - MantissaBits)
C20_CosLawsRounded ==
  /\ C20_OtherLaws
  /\ fnCall.name = "cos" /\ fnResult.done /\ ~C20_IsZero(fnCall.a) =>
       LET d == FAdd(fnResult.aa, FNeg(FOne))
       IN /\ FLeq(d, C20_RoundOff)
          /\ FLeq(FNeg(C20_RoundOff), d)
C20_Witness ==
  /\ fnCall.name = "cos" /\ fnResult.done
  /\ fnCall.a = <<FInt(1), FInt(3)>>
  /\ fnCall.b = <<FInt(3)>>
  /\ fnResult.aa # FOne
  /\ fnResult.ab = FOne

\* C16: adding to a candidate one (family, value) pair whose value is in the
\* query's value set for that family never decreases the overall score of
\* _attribute_overlap_score.
C16_OverlapMonotone ==
  ( /\ fnCall.name = "overlap" /\ fnResult.done
    /\ fnCall.added[2] \in QueryValues(fnCall.query, fnCall.added[1]) ) =>
    FLeq(fnResult.before, fnResult.after)

\* C18: parse_query does not propagate a failure of the preference
\* extraction: a call with a non-blank text whose extraction fails still
\* returns a ParsedQuery and still obtains the text embedding.
C18_FailSoft ==
  queryLog.call.kind \in {"parsed", "raised"} =>
    /\ queryLog.call.kind = "parsed"
    /\ queryLog.call.text_embedding # None

\* C19: ParsedQuery.raw is character for character the text passed in,
\* leading and trailing whitespace and letter case included.
C19_RawVerbatim ==
  queryLog.call.kind \in {"parsed", "blank"} =>
    queryLog.call.raw = queryLog.call.text

\* C11: retrieve_and_rank returns min(limit, number of candidates) results
\* in non-increasing score order; candidates of equal score keep the order of
\* the candidate enumeration; no candidate left out has a score strictly
\* above a returned one.
C11_ScoreOf(g) ==
  ScoreGarment(fnCall.parsed, g, fnCall.preferences, fnCall.positive,
               fnCall.negative).score
C11_Position(g) == CHOOSE i \in 1..Len(Candidates) : Candidates[i] = g
C11_RankingOrder ==
  fnCall.name = "rank" /\ fnResult.done /\ fnCall.limit >= 0 =>
    LET rs == fnResult.results
        n == Len(rs)
        returned == {rs[i].garment_id : i \in 1..n}
    IN /\ n = IF fnCall.limit < Len(Candidates) THEN fnCall.limit
              ELSE Len(Candidates)
       /\ Cardinality(returned) = n
       /\ \A i \in 1..n :
            /\ rs[i].garment_id \in SeqToSet(Candidates)
            /\ rs[i].score = C11_ScoreOf(rs[i].garment_id)
       /\ \A i, j \in 1..n :
            i < j =>
              /\ FLeq(rs[j].score, rs[i].score)
              /\ rs[i].score = rs[j].score =>
                   C11_Position(rs[i].garment_id) < C11_Position(rs[j].garment_id)
       /\ \A g \in SeqToSet(Candidates) \ returned :
            \A i \in 1..n : FLeq(C11_ScoreOf(g), rs[i].score)
C11_Witness ==
  /\ fnCall.name = "rank" /\ fnResult.done
  /\ fnCall.limit = 3
  /\ Len(fnResult.results) = 3
  /\ [i \in 1..3 |-> fnResult.results[i].garment_id] = <<1, 2, 3>>
  /\ FLess(fnResult.results[2].score, fnResult.results[1].score)
  /\ fnResult.results[2].score = fnResult.results[3].score

\* C12: for every returned result score = explanation.final_score = the sum
\* of the values of explanation.contributions, where contributions[s] =
\* weights[s] * components[s] for the four positive signals and
\* contributions[negative_profile_penalty] = -weights * components of it.
C12_PositiveSignals ==
  <<"text_similarity", "attribute_overlap", "preference_weight",
    "positive_profile_similarity">>
C12_Signals == C12_PositiveSignals \o <<"negative_profile_penalty">>
RECURSIVE C12_Sum(_, _)
C12_Sum(contributions, n) ==
  IF n = 0 THEN FZero
  ELSE IF C12_Signals[n] \in DOMAIN contributions
       THEN FAdd(C12_Sum(contributions, n - 1), contributions[C12_Signals[n]])
       ELSE C12_Sum(contributions, n - 1)
C12_Reconstructible ==
  fnCall.name = "rank" /\ fnResult.done =>
    \A i \in 1..Len(fnResult.results) :
      LET r == fnResult.results[i]
          e == r.explanation
      IN /\ r.score = e.final_score
         /\ r.score = C12_Sum(e.contributions, Len(C12_Signals))
         /\ \A k \in 1..Len(C12_PositiveSignals) :
              LET s == C12_PositiveSignals[k] IN
              /\ s \in DOMAIN e.contributions
              /\ s \in DOMAIN e.components
              /\ e.contributions[s] = FMul(e.weights[s], e.components[s])
         /\ e.contributions.negative_profile_penalty =
              FMul(FNeg(e.weights.negative_profile_penalty),
                   e.components.negative_profile_penalty)

\* C13: in every ranked result the negative_profile_penalty component is
\* >= 0 and its contribution is <= 0; the penalty is exactly 0 when the
\* cosine of the negative centroid and the candidate embedding is negative
\* or when the centroid or the candidate embedding is absent.
C13_Cosine(g) ==
  cos(FloatVec(TheValue(fnCall.negative)),
      FloatVec(TheValue(description_embedding[g])))
C13_PenaltyFloor ==
  fnCall.name = "rank" /\ fnResult.done =>
    \A i \in 1..Len(fnResult.results) :
      LET r == fnResult.results[i]
          penalty == r.explanation.components.negative_profile_penalty
          absent == \/ ~Truthy(fnCall.negative)
                    \/ ~Truthy(description_embedding[r.garment_id])
      IN /\ FLeq(FZero, penalty)
         /\ FLeq(r.explanation.contributions.negative_profile_penalty, FZero)
         /\ absent => penalty = FZero
         /\ (~absent /\ FLess(C13_Cosine(r.garment_id), FZero)) => penalty = FZero
C13_Witness ==
  /\ fnCall.name = "rank" /\ fnResult.done
  /\ fnCall.negative = Some(Vec(<<-1, 1>>))
  /\ \E i, j \in 1..Len(fnResult.results) :
       /\ fnResult.results[i].garment_id = 1
       /\ FLess(C13_Cosine(1), FZero)
       /\ fnResult.results[i].explanation.components.negative_profile_penalty = FZero
       /\ fnResult.results[j].garment_id = 2
       /\ FLess(FZero,
                fnResult.results[j].explanation.components.negative_profile_penalty)

\* C17: a candidate without a description embedding or without attributes
\* is still ranked, and every signal that cannot be computed for it has
\* component 0 and contribution 0 in its explanation; components.text_similarity
\* is 0 whenever the query embedding or the candidate embedding is absent.
C17_DegradeToZero ==
  fnCall.name = "rank" /\ fnResult.done =>
    LET rs == fnResult.results IN
    /\ fnCall.limit >= Len(Candidates) =>
         {rs[i].garment_id : i \in 1..Len(rs)} = SeqToSet(Candidates)
    /\ \A i \in 1..Len(rs) :
         LET g == rs[i].garment_id
             e == rs[i].explanation
         IN /\ (~Truthy(fnCall.parsed.text_embedding)
                \/ ~Truthy(description_embedding[g])) =>
                 /\ "text_similarity" \in DOMAIN e.components
                 /\ e.components.text_similarity = FZero
                 /\ "text_similarity" \in DOMAIN e.contributions
                 /\ e.contributions.text_similarity = FZero
            /\ garment_attributes[g] = <<>> =>
                 /\ e.components.attribute_overlap = FZero
                 /\ e.contributions.attribute_overlap = FZero
                 /\ e.components.preference_weight = FZero
                 /\ e.contributions.preference_weight = FZero
            /\ ~Truthy(description_embedding[g]) =>
                 /\ e.components.positive_profile_similarity = FZero
                 /\ e.contributions.positive_profile_similarity = FZero
                 /\ e.components.negative_profile_penalty = FZero
                 /\ e.contributions.negative_profile_penalty = FZero

\* the events of the searching user, and those recorded since the user's
\* previous search
C14_SearchRepeated ==
  /\ centroidLog.call.kind = "search"
  /\ centroidLog.call.previous # None
  /\ TheValue(centroidLog.call.previous).parsed = centroidLog.call.parsed
  /\ TheValue(centroidLog.call.previous).limit = centroidLog.call.limit
C14_EventsOfSearcher ==
  {k \in 1..Len(interaction_events) :
     interaction_events[k].user_id = centroidLog.call.user_id}
C14_EventsSinceSearch ==
  {k \in C14_EventsOfSearcher : k > TheValue(centroidLog.call.previous).events}
C14_NonZeroEmbedding(g) ==
  /\ description_embedding[g] # None
  /\ \E i \in 1..Len(TheValue(description_embedding[g])) :
       TheValue(description_embedding[g])[i][1] # 0

\* C14: when a user repeats a search and the only thing that user did since
\* the previous search is to dislike a garment A whose description embedding
\* is non-zero, that dislike being the user's only negative interaction, A's
\* final score is strictly below its score in the previous search and A's
\* negative_profile_penalty component is above 0.
C14_DislikeLowers ==
  C14_SearchRepeated =>
    \A k \in C14_EventsSinceSearch :
      LET A == interaction_events[k].garment_id IN
      ( /\ C14_EventsSinceSearch = {k}
        /\ {j \in C14_EventsOfSearcher :
              interaction_events[j].event_type = "dislike"} = {k}
        /\ C14_NonZeroEmbedding(A) )
      => /\ FLess(centroidLog.call.scores[A],
                  TheValue(centroidLog.call.previous).scores[A])
         /\ FLess(FZero, centroidLog.call.penalty[A])

\* C15: when a user repeats a search and that user's only feedback so far is
\* a like (weight omitted or positive) of a garment G recorded since the
\* previous search, G having an attribute or a non-zero description
\* embedding, G's final score is strictly above its score in the previous
\* search.
C15_LikeRaises ==
  C14_SearchRepeated =>
    \A k \in C14_EventsSinceSearch :
      LET G == interaction_events[k].garment_id IN
      ( /\ C14_EventsOfSearcher = {k}
        /\ interaction_events[k].event_type = "like"
        /\ FLess(FZero, interaction_events[k].weight_delta)
        /\ (garment_attributes[G] # <<>> \/ C14_NonZeroEmbedding(G)) )
      => FLess(TheValue(centroidLog.call.previous).scores[G],
               centroidLog.call.scores[G])

\* the 4-digit year tokens 1900..2099 of a description
C24_YearTokens(description) ==
  {t \in SeqToSet(Tokenize(Lower(description))) :
     /\ Len(t) = 4
     /\ SubSeq(t, 1, 2) \in {"19", "20"}
     /\ Char(t, 3) \in DigitSet /\ Char(t, 4) \in DigitSet}
C24_Decade(y) == IntToStr((ParseInt(y) \div 10) * 10) \o "s"

\* C24: for every 4-digit year token y in 1900..2099 of the description,
\* classify_basic puts the decade string floor(y/10)*10 followed by "s" into
\* the era family whenever that decade is an era value of the vocabulary.
C24_YearFolding ==
  pc = "classified" =>
    \A y \in C24_YearTokens(desc) :
      C24_Decade(y) \in OntologyGet("era") =>
        C24_Decade(y) \in SeqToSet(AttrGet(attrs, "era"))

\* the query families (by position) for which the candidate has a value
C25_Counted(query, garment) ==
  {i \in 1..Len(query) : \E p \in garment : p[1] = query[i][1]}
C25_Garment(query, garment, i) == {p[2] : p \in {q \in garment : q[1] = query[i][1]}}
C25_Jaccard(query, garment, i) ==
  FDiv(FInt(Cardinality(query[i][2] \cap C25_Garment(query, garment, i))),
       FInt(Cardinality(query[i][2] \cup C25_Garment(query, garment, i))))
RECURSIVE C25_SumJaccard(_, _, _)
C25_SumJaccard(query, garment, n) ==
  IF n = 0 THEN FZero
  ELSE IF n \in C25_Counted(query, garment)
  THEN FAdd(C25_SumJaccard(query, garment, n - 1), C25_Jaccard(query, garment, n))
  ELSE C25_SumJaccard(query, garment, n - 1)
\* the counted positions in increasing order
RECURSIVE C25_Order(_, _)
C25_Order(idx, n) ==
  IF n = 0 THEN <<>>
  ELSE IF n \in idx THEN Append(C25_Order(idx, n - 1), n)
  ELSE C25_Order(idx, n - 1)

\* C25: _attribute_overlap_score returns the mean of the per-family Jaccard
\* indices over exactly the query families for which the candidate has a
\* value; the result is between 0 and 1; it is 0 with no details when the
\* query has no attributes, the candidate has none or they share no family;
\* and the details hold one record per counted family, in query order, with
\* the query values, candidate values, overlapping values and Jaccard index.
C25_OverlapDefinition ==
  (fnCall.name = "overlap" /\ fnResult.done) =>
    LET q == fnCall.query
        g == fnCall.garment
        counted == C25_Counted(q, g)
        order == C25_Order(counted, Len(q))
    IN /\ FLeq(FZero, fnResult.before) /\ FLeq(fnResult.before, FOne)
       /\ counted = {} => fnResult.before = FZero /\ fnResult.details = <<>>
       /\ counted # {} =>
            fnResult.before =
              FDiv(C25_SumJaccard(q, g, Len(q)), FInt(Cardinality(counted)))
       /\ Len(fnResult.details) = Cardinality(counted)
       /\ \A k \in 1..Len(order) :
            fnResult.details[k] =
              [family |-> q[order[k]][1],
               query_values |-> q[order[k]][2],
               garment_values |-> C25_Garment(q, g, order[k]),
               overlap_values |-> q[order[k]][2] \cap C25_Garment(q, g, order[k]),
               jaccard |-> C25_Jaccard(q, g, order[k])]

\* a query with two families of which the candidate has only the first,
\* where one of the two query values overlaps: the score is 1/2, not 1/4
C25_Witness ==
  /\ fnCall.name = "overlap" /\ fnResult.done
  /\ Len(fnCall.query) = 2
  /\ Len(fnResult.details) = 1
  /\ fnResult.details[1].family = fnCall.query[1][1]
  /\ fnResult.before = FLit(1, 2)

\* C26: a classify_basic_cached miss that finds more stored keys than the
\* capacity empties the cache and resets both counters before it stores its
\* result, so right after the call the cache holds that one key and stats
\* reports size 1, hits 0 and misses 0; a miss that does not overflow
\* removes and changes no stored entry.
C26_OverflowPolicy ==
  [][ ( /\ classifyLog'.calls = classifyLog.calls + 1
        /\ ClassifyCacheKey(desc') \notin DOMAIN CLASSIFY_CACHE ) =>
      IF Cardinality(DOMAIN CLASSIFY_CACHE) > CLASSIFY_CACHE_LIMIT
      THEN /\ DOMAIN CLASSIFY_CACHE' = {ClassifyCacheKey(desc')}
           /\ classify_cache_stats'.size = 1
           /\ classify_cache_stats'.hits = 0
           /\ classify_cache_stats'.misses = 0
      ELSE /\ DOMAIN CLASSIFY_CACHE' = DOMAIN CLASSIFY_CACHE \cup {ClassifyCacheKey(desc')}
           /\ \A k \in DOMAIN CLASSIFY_CACHE : CLASSIFY_CACHE'[k] = CLASSIFY_CACHE[k]
    ]_vars

\* the state right after an overflowing miss
C26_Witness ==
  /\ pc = "returned"
  /\ classifyLog.overflowed
  /\ classifyLog.calls = CLASSIFY_CACHE_LIMIT + 2
  /\ classify_cache_stats.size = 1
  /\ classify_cache_stats.hits = 0
  /\ classify_cache_stats.misses = 0

\* the request weight as the claim reads it: 1.0 when omitted
C27_Weight(weight) == IF weight = None THEN FOne ELSE TheValue(weight)
\* +w for like, -w for dislike, +0.1*w for view, +0.3*w for click
C27_Delta(action, w) ==
  IF action = "like" THEN w
  ELSE IF action = "dislike" THEN FNeg(w)
  ELSE IF action = "view" THEN FMul(FLit(1, 10), w)
  ELSE FMul(FLit(3, 10), w)
\* the accepted events of user u on garments that carry attribute value a
C27_Events(u, a) ==
  {i \in 1..Len(interaction_events) :
     /\ interaction_events[i].user_id = u
     /\ a \in SeqToSet(garment_attributes[interaction_events[i].garment_id])}
\* the sum of the deltas of those events among the first n, in event order
RECURSIVE C27_Sum(_, _, _)
C27_Sum(u, a, n) ==
  IF n = 0 THEN FZero
  ELSE IF n \in C27_Events(u, a)
  THEN FAdd(C27_Sum(u, a, n - 1),
            C27_Delta(centroidLog.accepted[n].action,
                      C27_Weight(centroidLog.accepted[n].weight)))
  ELSE C27_Sum(u, a, n - 1)

\* C27: after any sequence of accepted feedback requests there is one
\* InteractionEvent per accepted request, the stored weight of (user u,
\* attribute value a) is the sum of the deltas of u's events on garments
\* carrying a (+w like, -w dislike, +0.1w view, +0.3w click, w the request
\* weight, 1.0 when omitted), and a pair without such an event has no row.
C27_WeightAggregation ==
  /\ Len(interaction_events) = Len(centroidLog.accepted)
  /\ \A u \in Users, a \in DOMAIN attribute_value :
       IF <<u, a>> \in DOMAIN user_preferences
       THEN /\ C27_Events(u, a) # {}
            /\ user_preferences[<<u, a>>] = C27_Sum(u, a, Len(interaction_events))
       ELSE C27_Sum(u, a, Len(interaction_events)) = FZero

\* ---- C28 ----

\* the request handled by the step is a /feedback request
C28_Request == centroidLog'.call.kind = "feedback"

\* nothing the handler writes has changed over the step
C28_Untouched ==
  /\ interaction_events' = interaction_events
  /\ user_preferences' = user_preferences
  /\ user_embedding_cache' = user_embedding_cache

\* C28: a /feedback request whose (lowercased, stripped) action is not one
\* of like, dislike, view, click is answered 400, one with an accepted
\* action whose garment does not exist is answered 404, and in both cases
\* the step appends no InteractionEvent, creates or changes no
\* UserPreference weight and leaves every centroid cache entry, the two of
\* the requesting user included, as it was.
C28_RejectedChangesNothing ==
  [][C28_Request =>
       LET c == centroidLog'.call
       IN /\ (c.action \notin {"like", "dislike", "view", "click"}
                => c.status = 400)
          /\ (c.garment_id \notin GarmentIds => c.status \in {400, 404})
          /\ (c.action \in {"like", "dislike", "view", "click"}
                /\ c.garment_id \notin GarmentIds => c.status = 404)
          /\ (c.status \in {400, 404} => C28_Untouched)]_vars

\* a request was rejected while both centroid entries of its user were
\* cached and the user had events and preference rows
C28_Witness ==
  /\ centroidLog.call.kind = "feedback"
  /\ centroidLog.call.status \in {400, 404}
  /\ centroidLog.call.user_id = "u"
  /\ PositiveKey("u") \in DOMAIN user_embedding_cache
  /\ NegativeKey("u") \in DOMAIN user_embedding_cache
  /\ \E i \in 1..Len(interaction_events) : interaction_events[i].user_id = "u"
  /\ \E k \in DOMAIN user_preferences : k[1] = "u"

\* ---- C29 ----

\* the four cache keys of two users are pairwise distinct
C29_KeysDistinct(u, v) ==
  Cardinality({PositiveKey(u), NegativeKey(u), PositiveKey(v), NegativeKey(v)}) = 4

\* the centroid the cache holds for user u under the given key, before and
\* after the step, is the same
C29_EntryKept(key) ==
  get_user_embedding(user_embedding_cache', key)
    = get_user_embedding(user_embedding_cache, key)

\* C29: for users u # v the cache keys (u, positive), (u, negative),
\* (v, positive), (v, negative) are pairwise distinct, and a /feedback
\* request or a centroid load made for v changes neither the positive nor
\* the negative cache entry of u.
C29_PerUserIsolation ==
  [][\A u \in Users :
       /\ centroidLog'.call.kind \in {"feedback", "load"}
       /\ centroidLog'.call.user_id # u
       => /\ C29_KeysDistinct(u, centroidLog'.call.user_id)
          /\ C29_EntryKept(PositiveKey(u))
          /\ C29_EntryKept(NegativeKey(u))]_vars

\* ---- C30 ----

\* the empty vector of a failed embed_text call is stored under no key
C30_NoEmptyStored ==
  \A i \in 1..Len(query_embedding_cache) : query_embedding_cache[i][2] # <<>>

\* the last search ran parse_query to the end while the embedding service
\* was answering
C30_ServiceUp ==
  /\ queryLog.call.kind = "parsed"
  /\ queryLog.call.produced # <<>>

\* C30: the empty vector embed_text yields when the embedding service fails
\* is never stored in the query-embedding cache, and a search made while
\* the service answers obtains a non-empty text embedding, whatever failed
\* for the same normalised text before.
C30_FailureNotMemoised ==
  /\ C30_NoEmptyStored
  /\ (C30_ServiceUp => /\ queryLog.call.text_embedding # None
                       /\ TheValue(queryLog.call.text_embedding) # <<>>)

\* ---- C22 ----

\* the query contains a word that is an entry of the fashion vocabulary
C22_HasFashionWord(q) == Elements(Split(Lower(q))) \cap FASHION_VOCAB # {}

\* the step leaves the query-embedding cache and the log of extraction and
\* embedding calls as they were
C22_NoPipelineEffect ==
  /\ query_embedding_cache' = query_embedding_cache
  /\ queryLog' = queryLog

\* C22: for a non-blank query of POST /search, with force unset the query
\* pipeline is invoked exactly when _is_off_topic(query) is false; an
\* off-topic query is answered off_topic = true with results = [] and makes
\* no extraction call, no embedding call and no cache change; a query that
\* contains a fashion-vocabulary word is never treated as off-topic; with
\* force = true the pipeline is always invoked and the response it yields
\* has off_topic = false.
C22_OffTopicGate ==
  [][LET r == search_response'
     IN r.kind = "response" /\ Strip(r.query) # "" =>
          /\ (~r.forced => (r.pipeline <=> ~is_off_topic(r.query).off_topic))
          /\ (~r.forced /\ is_off_topic(r.query).off_topic
                => /\ r.status = 200
                   /\ r.off_topic
                   /\ r.results = <<>>
                   /\ C22_NoPipelineEffect)
          /\ (~r.forced /\ C22_HasFashionWord(r.query) => r.pipeline)
          /\ (r.forced => /\ r.pipeline
                          /\ (r.status = 200 => ~r.off_topic))]_vars

\* ---- C23 ----

\* at most one garment row carries each external_id (the table is empty
\* at the start)
C23_OneRowPerExternalId ==
  \A i, j \in 1..Len(garments) :
    garments[i].external_id = garments[j].external_id => i = j

\* the request answered by the step named an external_id that had a row
\* before the step
C23_Repeated ==
  /\ ingest_response'.kind = "response"
  /\ ingest_response'.status = 200
  /\ RowsOf(garments, ingest_response'.external_id) # {}

\* C23: ingesting an external_id that was already ingested returns the id of
\* the existing garment, creates no garment row and leaves the fields and
\* attributes of every garment as they were, whatever title, brand, price or
\* attributes the repeated request carries; at most one garment row exists
\* per external_id.
C23_IngestIdempotent ==
  [][/\ C23_OneRowPerExternalId'
     /\ (C23_Repeated =>
           /\ \E i \in RowsOf(garments, ingest_response'.external_id) :
                ingest_response'.garment_id = garments[i].id
           /\ garments' = garments)]_vars

\* a repeated request carried another title than the stored one and was
\* answered with the id of the stored garment, two garments being stored
C23_Witness ==
  /\ ingest_response.kind = "response"
  /\ ingest_response.status = 200
  /\ Len(garments) = 2
  /\ \E i \in 1..Len(garments) :
       /\ garments[i].external_id = ingest_response.external_id
       /\ garments[i].id = ingest_response.garment_id
       /\ garments[i].title # ingest_response.title
       /\ garments[i].attributes # <<>>

\* ---- C21 ----

\* C21: whatever the interleaving of concurrent get_or_set calls on the
\* query-embedding cache, no call raises, and every call that returns for a
\* non-blank text returns a value that the factory of some call made for
\* the same normalized key.
C21_OnlyBenignRaces ==
  \A t \in LruThreads :
    /\ threads[t].outcome # "raised"
    /\ (threads[t].outcome = "returned" /\ threads[t].key # ""
          => /\ threads[t].val # None
             /\ <<threads[t].key, TheValue(threads[t].val)>> \in raceLog.produced)

=============================================================================
